---------------------------- MODULE Spec2Model ----------------------------
(***************************************************************************)
(* A model of src/main.py, the "Sprite Terminal" FastAPI application:      *)
(* the ttl_cache decorator and the three functions it wraps, the heartbeat *)
(* job and its bounded history, the warm-pool grid, the five request      *)
(* handlers and the timer script of the /info page.                        *)
(*                                                                         *)
(* Time is an integer count of 1/Hz seconds.  Text that the program builds *)
(* from values (ISO time stamps, the uptime string) is a sequence of       *)
(* character codes, so that slicing, replacing and comparing strings are   *)
(* computed and not assumed; text the program only passes through is a     *)
(* TLA+ string.  Python's None is the one-field record None; a dict is a   *)
(* record or a function on keys; a value that came out of json.loads is    *)
(* tagged with its JSON type (J...).                                       *)
(***************************************************************************)
EXTENDS Integers, Sequences, FiniteSets, TLC

VARIABLES
    clock,         \* the system clock, in 1/Hz seconds (time.time, datetime.now)
    scheduler,     \* the BackgroundScheduler: its state and the job's next_run_time
    cron_history,  \* cron_history["heartbeat"], a deque(maxlen=50)
    cron_stats,    \* cron_stats["heartbeat"]
    cache,         \* the closure of each ttl_cache-wrapped function: value, expires
    world,         \* the environment the program reads: OS, files, executables
    runlog,        \* history variable: every record heartbeat_job ever appended
    invoked,       \* history variable: per wrapped function, how often its body ran
                   \* and the time of the wrapper call that ran it last
    last_json,     \* history variable: the cache fields of the last /info/json
                   \* response, and invoked as it was then
    pool,          \* a call of generate_warm_pool_grid: its arguments and result
    thr,           \* threads: their positions and local variables (SpecThreads,
                   \* SpecCronThread)
    resp,          \* what the handler that just ran returned (NoResp otherwise)
    browser        \* a browser showing a page: its request and the page's script

vars == <<clock, scheduler, cron_history, cron_stats, cache, world, runlog, invoked,
          last_json, pool, thr, resp, browser>>

---------------------------------------------------------------------------
(* Bounds of the model and constants of the program *)

Hz == 100                  \* clock units per second
seconds == 300             \* ttl_cache(seconds=300)
maxlen == 50               \* deque(maxlen=50)
minutes == 30              \* IntervalTrigger(minutes=30)
HistoryShown == 20         \* all_history[:20]
IsoSecondsLen == 19        \* "YYYY-MM-DDTHH:MM:SS", the [:19] of cron_page
instances_aware == 790471  \* the fixed value of /health

MaxCronRuns == 53          \* heartbeat runs explored by SpecCron
MaxLateRuns == 1           \* only the first runs may start late (bounds the branching)

None == [none |-> TRUE]
NoResp == [kind |-> "none"]

Min(a, b) == IF a <= b THEN a ELSE b
Max(a, b) == IF a >= b THEN a ELSE b

---------------------------------------------------------------------------
(* Strings as sequences of character codes *)

Ch(d) == 48 + d            \* the digit d as a character
DOT == 46
SPACE == 32
LETTER_T == 84

RECURSIVE Pad(_, _)
\* n written in decimal, zero-padded (and cut) to w digits: "%0wd"
Pad(n, w) == IF w = 0 THEN <<>> ELSE Append(Pad(n \div 10, w - 1), Ch(n % 10))

\* s[:n]
Prefix(s, n) == SubSeq(s, 1, Min(n, Len(s)))

\* s.replace(a, b) for single characters a, b
Replace(s, a, b) == [i \in 1..Len(s) |-> IF s[i] = a THEN b ELSE s[i]]

\* Python's s < t on strings: lexicographic by character code, a proper prefix first
StrLess(s, t) ==
    LET n == Min(Len(s), Len(t))
        diff == {i \in 1..n : s[i] # t[i]}
    IN  IF diff = {} THEN Len(s) < Len(t)
        ELSE LET k == CHOOSE i \in diff : \A j \in diff : i <= j
             IN  s[k] < t[k]

SecondsPerDay == 24 * 60 * 60

\* datetime.isoformat(): date, "T", time of day, and the fraction only when it is not 0
isoformat(t) ==
    LET sec == t \div Hz
        frac == t % Hz
    IN  Pad(sec \div SecondsPerDay, 10) \o <<LETTER_T>> \o Pad(sec % SecondsPerDay, 8)
        \o (IF frac = 0 THEN <<>> ELSE <<DOT>> \o Pad(frac, 2))

\* datetime.strftime('%Y-%m-%d %H:%M:%S')
strftime(t) ==
    LET sec == t \div Hz
    IN  Pad(sec \div SecondsPerDay, 10) \o <<SPACE>> \o Pad(sec % SecondsPerDay, 8)

---------------------------------------------------------------------------
(* The cron scheduler *)

Interval == minutes * 60 * Hz

\* deque.append on a deque(maxlen=50): the oldest entry is dropped when full
DequeAppendDropNewest(d, x) == IF Len(d) >= maxlen THEN d ELSE Append(d, x)
DequeAppend(d, x) ==
    IF Len(d) >= maxlen THEN Append(Tail(d), x) ELSE Append(d, x)

HeartbeatRecord(now) ==
    [time |-> isoformat(now),
     message |-> [stamp |-> strftime(now), text |-> "Heartbeat pulse - system alive"]]

\* heartbeat_job() run at time now
heartbeat_job(now) ==
    /\ cron_history' = DequeAppend(cron_history, HeartbeatRecord(now))
    /\ cron_stats' = [cron_stats EXCEPT !.runs = @ + 1, !.last_run = isoformat(now)]
    /\ runlog' = Append(runlog, HeartbeatRecord(now))

\* start_scheduler(): the startup event
StartScheduler ==
    /\ scheduler.state = "stopped"
    /\ scheduler' = [state |-> "running", next_run_time |-> clock + Interval]
    /\ cron_stats' = [cron_stats EXCEPT !.next_run = isoformat(clock + Interval)]
    /\ resp' = NoResp
    /\ UNCHANGED <<clock, cron_history, runlog, cache, world, invoked, last_json, pool, thr, browser>>

\* stop_scheduler(): the shutdown event
StopScheduler ==
    /\ scheduler.state = "running"
    /\ scheduler' = [scheduler EXCEPT !.state = "shutdown"]
    /\ resp' = NoResp
    /\ UNCHANGED <<clock, cron_history, cron_stats, runlog, cache, world, invoked, last_json, pool, thr, browser>>

\* the job fires whatever the state of the scheduler
Fire_in_any_state(maxRuns) ==
    /\ Len(runlog) < maxRuns
    /\ \E late \in {0, Hz \div 20} :
        /\ late = 0 \/ Len(runlog) < MaxLateRuns
        /\ clock' = Max(clock, scheduler.next_run_time + late)
        /\ heartbeat_job(clock')
    /\ scheduler' = [scheduler EXCEPT !.next_run_time = @ + Interval]
    /\ resp' = NoResp
    /\ UNCHANGED <<cache, world, invoked, last_json, pool, thr, browser>>
\* The scheduler thread sleeps until next_run_time, runs the job (late by a
\* fraction of a second at most) and schedules the next run one interval on.
Fire(maxRuns) ==
    /\ scheduler.state = "running"
    /\ Len(runlog) < maxRuns
    /\ \E late \in {0, Hz \div 20} :
        /\ late = 0 \/ Len(runlog) < MaxLateRuns
        /\ clock' = Max(clock, scheduler.next_run_time + late)
        /\ heartbeat_job(clock')
    /\ scheduler' = [scheduler EXCEPT !.next_run_time = @ + Interval]
    /\ resp' = NoResp
    /\ UNCHANGED <<cache, world, invoked, last_json, pool, thr, browser>>

---------------------------------------------------------------------------
(* GET /cron and GET /health *)

RECURSIVE InsertDesc(_, _)
\* x put into the descending list s behind every entry whose key is not smaller:
\* list.sort(key=time, reverse=True) is stable
InsertDesc(s, x) ==
    IF s = <<>> THEN <<x>>
    ELSE IF StrLess(Head(s).time, x.time) THEN <<x>> \o s
         ELSE <<Head(s)>> \o InsertDesc(Tail(s), x)

RECURSIVE SortDescFrom(_, _)
SortDescFrom(done, rest) ==
    IF rest = <<>> THEN done
    ELSE SortDescFrom(InsertDesc(done, Head(rest)), Tail(rest))

\* all_history.sort(key=lambda x: x["time"], reverse=True)
SortByTimeDesc(s) == SortDescFrom(<<>>, s)

ShownHistoryOldest(all) == Prefix(all, HistoryShown)
\* the entries of the history log: all_history[:20] of the sorted list
ShownHistory(all) == Prefix(SortByTimeDesc(all), HistoryShown)

\* the page cron_page() returns: the job card and the history log
cron_page_body(stats, hist) ==
    LET shown == ShownHistory(hist)
    IN  [runs |-> stats.runs,
         last_run |-> IF stats.last_run # <<>>
                      THEN Replace(Prefix(stats.last_run, IsoSecondsLen), LETTER_T, SPACE)
                      ELSE <<>>,
         last_run_never |-> stats.last_run = <<>>,
         next_run |-> IF stats.next_run # <<>>
                      THEN Replace(Prefix(stats.next_run, IsoSecondsLen), LETTER_T, SPACE)
                      ELSE <<>>,
         history |-> [i \in 1..Len(shown) |-> shown[i].message],
         no_runs_yet |-> shown = <<>>]

Serving == scheduler.state = "running"

CronPageCounting ==
    /\ Serving
    /\ cron_stats' = [cron_stats EXCEPT !.next_run = isoformat(scheduler.next_run_time),
                                        !.runs = @ + 1]
    /\ resp' = [kind |-> "cron", status |-> 200,
                body |-> cron_page_body(cron_stats', cron_history)]
    /\ UNCHANGED <<clock, scheduler, cron_history, runlog, cache, world, invoked, last_json, pool, thr, browser>>
\* cron_page(): refreshes next_run from the job, then renders
CronPage ==
    /\ Serving
    /\ cron_stats' = [cron_stats EXCEPT !.next_run = isoformat(scheduler.next_run_time)]
    /\ resp' = [kind |-> "cron", status |-> 200,
                body |-> cron_page_body(cron_stats', cron_history)]
    /\ UNCHANGED <<clock, scheduler, cron_history, runlog, cache, world, invoked, last_json, pool, thr, browser>>

health_body_stale(now) ==
    [status |-> "ok", timestamp |-> cron_stats.last_run, instances_aware |-> instances_aware]
health_body(now) ==
    [status |-> "ok", timestamp |-> isoformat(now), instances_aware |-> instances_aware]

\* health()
Health ==
    /\ Serving
    /\ resp' = [kind |-> "health", status |-> 200, body |-> health_body(clock)]
    /\ UNCHANGED <<clock, scheduler, cron_history, cron_stats, runlog, cache, world,
                   invoked, last_json, pool, thr, browser>>

---------------------------------------------------------------------------
(* Values read by json.loads, tagged with their JSON type *)

JNull == [t |-> "null"]
JNum(n) == [t |-> "num", n |-> n]
JStr(s) == [t |-> "str", s |-> s]
JBool(b) == [t |-> "bool", b |-> b]
JList(l) == [t |-> "list", l |-> l]
JDict(d) == [t |-> "dict", d |-> d]

\* d.get(k, dflt) on a dict
DictGet(j, k, dflt) == IF k \in DOMAIN j.d THEN j.d[k] ELSE dflt

\* d[k] = v
DictSet(d, k, v) == [x \in DOMAIN d \cup {k} |-> IF x = k THEN v ELSE d[x]]

\* bool(j)
Truthy(j) ==
    CASE j.t = "null" -> FALSE
      [] j.t = "num"  -> j.n # 0
      [] j.t = "str"  -> j.s # ""
      [] j.t = "bool" -> j.b
      [] j.t = "list" -> j.l # <<>>
      [] j.t = "dict" -> DOMAIN j.d # {}

\* Exact numbers for Python's floats: a fraction in lowest terms, den > 0
\* (the rounding of binary floating point is not modelled)
RECURSIVE GCD(_, _)
GCD(a, b) == IF b = 0 THEN a ELSE GCD(b, a % b)
Abs(a) == IF a < 0 THEN -a ELSE a
Rat(n, d) ==
    LET g == GCD(Abs(n), Abs(d))
        s == IF d < 0 THEN -1 ELSE 1
    IN  [num |-> (s * n) \div g, den |-> (s * d) \div g]
Zero == [num |-> 0, den |-> 1]
---------------------------------------------------------------------------
(* The texts the environment can hand to the program, and how they parse *)

SvcWeb == JDict([name |-> JStr("web"), state |-> JDict([status |-> JStr("running")]),
                 http_port |-> JNum(8080)])
SvcDb == JDict([name |-> JStr("db"), state |-> JDict([status |-> JStr("stopped")])])
SvcAnon == JDict([state |-> JDict(<<>>)])
Checkpoint(i, auto) ==
    JDict([id |-> JStr("v" \o ToString(i)), create_time |-> JStr("2025-01-0" \o ToString(i) \o "T10:00:00Z"),
           is_auto |-> JBool(auto)])
RuleDefaults == JDict([include |-> JStr("defaults")])
RuleAllow == JDict([domain |-> JStr("example.com"), action |-> JStr("allow")])
FFItem(type, result) == JDict([type |-> JStr(type), result |-> result])
FFError(type) == JDict([type |-> JStr(type), error |-> JStr("not supported")])
\* 1024**3 bytes; the byte counts of the model are in units of 1024**2 bytes
GiB == 1024

FFGood ==
    <<FFItem("OS", JDict([prettyName |-> JStr("Debian 12")])),
      FFItem("Kernel", JDict([name |-> JStr("Linux"), release |-> JStr("6.1")])),
      FFItem("CPU", JDict([cpu |-> JStr("EPYC"), cores |-> JDict([logical |-> JNum(8)]),
                           frequency |-> JDict([base |-> JNum(2000)])])),
      FFItem("Memory", JDict([used |-> JNum(2 * GiB), total |-> JNum(8 * GiB)])),
      FFItem("Disk", JList(<<JDict([mountpoint |-> JStr("/"),
                                    bytes |-> JDict([used |-> JNum(10 * GiB),
                                                     total |-> JNum(100 * GiB)])])>>)),
      FFItem("Uptime", JDict([uptime |-> JNum(3720000)])),
      FFItem("Packages", JDict([all |-> JNum(412)])),
      FFItem("Shell", JDict([prettyName |-> JStr("bash")])),
      FFItem("LocalIp", JList(<<JDict([ipv4 |-> JStr("10.0.0.2/24")])>>))>>

FFPartial ==
    <<FFItem("OS", JDict([prettyName |-> JStr("Debian 11")])),
      FFError("Battery"),
      FFItem("OS", JDict([prettyName |-> JStr("Debian 12")])),
      FFItem("Memory", JDict([used |-> JNum(0), total |-> JNum(0)]))>>

FFZeroTotals ==
    <<FFItem("Memory", JDict([used |-> JNum(GiB), total |-> JNum(0)])),
      FFItem("Disk", JList(<<JDict([mountpoint |-> JStr("/home"),
                                    bytes |-> JDict([used |-> JNum(GiB),
                                                     total |-> JNum(4 * GiB)])]),
                             JDict([mountpoint |-> JStr("/"),
                                    bytes |-> JDict([used |-> JNum(GiB),
                                                     total |-> JNum(0)])])>>))>>

FFNumber == <<FFItem("OS", JDict([prettyName |-> JStr("Debian 12")])), JNum(5),
              FFItem("Shell", JDict([prettyName |-> JStr("bash")]))>>
FFStrings == <<JStr("warning"), FFItem("Shell", JDict([prettyName |-> JStr("bash")])),
               JList(<<JStr("type")>>)>>
FFResultString == <<FFItem("OS", JDict([prettyName |-> JStr("Debian 12")])),
                    JStr("no result")>>
FFListType == <<FFItem("OS", JDict([prettyName |-> JStr("Debian 12")])),
                JDict([type |-> JList(<<JStr("Shell")>>), result |-> JStr("bash")])>>

FFUntyped == <<FFItem("OS", JDict([prettyName |-> JStr("Debian 12")])),
               JDict([result |-> JStr("orphan")])>>

\* json.loads(text): the value, or ok = FALSE for a JSONDecodeError
JsonLoads(text) ==
    CASE text = "[]" -> [ok |-> TRUE, v |-> JList(<<>>)]
      [] text = "{}" -> [ok |-> TRUE, v |-> JDict(<<>>)]
      [] text = "[web]" -> [ok |-> TRUE, v |-> JList(<<SvcWeb>>)]
      [] text = "[web, db]" -> [ok |-> TRUE, v |-> JList(<<SvcWeb, SvcDb>>)]
      [] text = "[anon]" -> [ok |-> TRUE, v |-> JList(<<SvcAnon>>)]
      [] text = "[cp1]" -> [ok |-> TRUE, v |-> JList(<<Checkpoint(1, FALSE)>>)]
      [] text = "[cp1..cp6]" ->
            [ok |-> TRUE, v |-> JList([i \in 1..6 |-> Checkpoint(i, i % 2 = 0)])]
      [] text = "[cp1..cp4]" ->
            [ok |-> TRUE, v |-> JList([i \in 1..4 |-> Checkpoint(i, i % 2 = 0)])]
      [] text = "[cp1..cp5]" ->
            [ok |-> TRUE, v |-> JList([i \in 1..5 |-> Checkpoint(i, i % 2 = 0)])]
      [] text = "[cp1..cp7]" ->
            [ok |-> TRUE, v |-> JList([i \in 1..7 |-> Checkpoint(i, i % 2 = 0)])]
      [] text = "{rules: []}" -> [ok |-> TRUE, v |-> JDict([rules |-> JList(<<>>)])]
      [] text = "{rules: [defaults]}" ->
            [ok |-> TRUE, v |-> JDict([rules |-> JList(<<RuleDefaults>>)])]
      [] text = "{rules: [defaults, allow]}" ->
            [ok |-> TRUE, v |-> JDict([rules |-> JList(<<RuleDefaults, RuleAllow>>)])]
      [] text = "{rules: [allow, allow]}" ->
            [ok |-> TRUE, v |-> JDict([rules |-> JList(<<RuleAllow, RuleAllow>>)])]
      [] text = "{rules: [allow]}" ->
            [ok |-> TRUE, v |-> JDict([rules |-> JList(<<RuleAllow>>)])]
      [] text = "{rules: [allow, defaults]}" ->
            [ok |-> TRUE, v |-> JDict([rules |-> JList(<<RuleAllow, RuleDefaults>>)])]
      [] text = "{rules: [defaults, defaults]}" ->
            [ok |-> TRUE, v |-> JDict([rules |-> JList(<<RuleDefaults, RuleDefaults>>)])]
      [] text = "{rules: [allow, allow, allow]}" ->
            [ok |-> TRUE, v |-> JDict([rules |-> JList(<<RuleAllow, RuleAllow, RuleAllow>>)])]
      [] text = "[fastfetch: all modules]" -> [ok |-> TRUE, v |-> JList(FFGood)]
      [] text = "[fastfetch: some modules]" -> [ok |-> TRUE, v |-> JList(FFPartial)]
      [] text = "[fastfetch: zero totals]" -> [ok |-> TRUE, v |-> JList(FFZeroTotals)]
      [] text = "[fastfetch: a number]" -> [ok |-> TRUE, v |-> JList(FFNumber)]
      [] text = "[fastfetch: strings]" -> [ok |-> TRUE, v |-> JList(FFStrings)]
      [] text = "[fastfetch: result string]" -> [ok |-> TRUE, v |-> JList(FFResultString)]
      [] text = "[fastfetch: type a list]" -> [ok |-> TRUE, v |-> JList(FFListType)]
      [] text = "{result: x}" -> [ok |-> TRUE, v |-> JDict([result |-> JStr("x")])]
      [] text = "[fastfetch: item without type]" -> [ok |-> TRUE, v |-> JList(FFUntyped)]
      [] OTHER -> [ok |-> FALSE]

\* str.strip() on the texts of the version file
Strip(text) ==
    CASE text = "v1.4\n" -> "v1.4"
      [] text = "  \n" -> ""
      [] OTHER -> text

\* int(token): ok = FALSE for a ValueError
IntTokens == ("0" :> 0) @@ ("10" :> 10) @@ ("30" :> 30) @@ ("60" :> 60) @@ ("100" :> 100)
             @@ ("512" :> 512) @@ ("1024" :> 1024) @@ ("2048" :> 2048) @@ ("4096" :> 4096)
             @@ ("-10" :> -10)
int(tok) == IF tok \in DOMAIN IntTokens THEN [ok |-> TRUE, v |-> IntTokens[tok]]
            ELSE [ok |-> FALSE]

\* float(token), in hundredths: ok = FALSE for a ValueError
FloatTokens == ("0.00" :> 0) @@ ("0.52" :> 52) @@ ("1.25" :> 125) @@ ("59.99" :> 5999)
               @@ ("4000.25" :> 400025) @@ ("90061.50" :> 9006150)
float(tok) == IF tok \in DOMAIN FloatTokens THEN [ok |-> TRUE, v |-> FloatTokens[tok]]
              ELSE [ok |-> FALSE]

\* key.rstrip(':') on the first field of a /proc/meminfo line
RStripColon(tok) ==
    CASE tok = "MemTotal:" -> "MemTotal"
      [] tok = "MemFree:" -> "MemFree"
      [] tok = "MemAvailable:" -> "MemAvailable"
      [] tok = "SwapTotal:" -> "SwapTotal"
      [] tok = "SwapFree:" -> "SwapFree"
      [] OTHER -> tok

\* s[:n] on the user and command fields of ps: the inputs longer than n
Truncated == (<<"www-data-runner", 8>> :> "www-data")
Cut(s, n) == IF <<s, n>> \in DOMAIN Truncated THEN Truncated[<<s, n>>] ELSE s

\* 'R' in stat
HasR(stat) == stat \in {"R", "R+", "Rs", "RN"}

\* stdout.strip().split('\n') on an output given as its lines (each line as its
\* fields): the empty output splits into one empty line
SplitLines(out) == IF out = <<>> THEN << <<>> >> ELSE out

RECURSIVE Dec(_)
\* str(n) for n >= 0
Dec(n) == IF n < 10 THEN <<Ch(n)>> ELSE Append(Dec(n \div 10), Ch(n % 10))
COLON == 58

---------------------------------------------------------------------------
(* The environment: what the operating system answers.                     *)
(*   node, environ, cwd, pid: what platform and os report                  *)
(*   path: the executables that are installed                              *)
(*   files: path -> [exists, text]                                         *)
(*   procs: command -> [timeout, returncode, stdout]                       *)

run_found(w, exe, cmd) ==
    IF w.procs[cmd].timeout
    THEN [raises |-> TRUE]
    ELSE [raises |-> FALSE, returncode |-> w.procs[cmd].returncode,
          stdout |-> w.procs[cmd].stdout]
\* subprocess.run(...): raises when the executable is missing or times out
run(w, exe, cmd) ==
    IF exe \notin w.path \/ w.procs[cmd].timeout
    THEN [raises |-> TRUE]
    ELSE [raises |-> FALSE, returncode |-> w.procs[cmd].returncode,
          stdout |-> w.procs[cmd].stdout]

get_system_info_at_import(w) ==
    [hostname |-> "sprite-a", python_version |-> "3.12.1", platform |-> "Linux-6.1-x86_64",
     kernel |-> "6.1", architecture |-> "x86_64", cpu_count |-> 8, user |-> "sprite",
     home |-> "/home/sprite", cwd |-> "/app", pid |-> 4242]
\* get_system_info()
get_system_info(w) ==
    [hostname |-> w.node,
     python_version |-> "3.12.1",
     platform |-> "Linux-6.1-x86_64",
     kernel |-> "6.1",
     architecture |-> "x86_64",
     cpu_count |-> w.cpu_count,
     user |-> IF "USER" \in DOMAIN w.environ THEN w.environ["USER"] ELSE "sprite",
     home |-> IF "HOME" \in DOMAIN w.environ THEN w.environ["HOME"] ELSE "/home/sprite",
     cwd |-> w.cwd,
     pid |-> w.pid]

DefaultSpriteInfo ==
    [version |-> "unknown", services |-> JList(<<>>), checkpoints |-> JList(<<>>),
     network_policy |-> JDict([rules |-> JList(<<>>)])]

JsonOfCommandAnyStatus(w, exe, cmd, dflt) ==
    LET r == run(w, exe, cmd)
    IN  IF r.raises THEN dflt
        ELSE IF JsonLoads(r.stdout).ok THEN JsonLoads(r.stdout).v ELSE dflt
\* one "try: run; if returncode == 0: x = json.loads(stdout); except: pass" block
JsonOfCommand(w, exe, cmd, dflt) ==
    LET r == run(w, exe, cmd)
    IN  IF r.raises THEN dflt
        ELSE IF r.returncode # 0 THEN dflt
        ELSE IF JsonLoads(r.stdout).ok THEN JsonLoads(r.stdout).v ELSE dflt

\* the body of get_sprite_info()
get_sprite_info(w) ==
    [version |->
        IF w.files["/.sprite/version.txt"].exists
        THEN Strip(w.files["/.sprite/version.txt"].text)
        ELSE DefaultSpriteInfo.version,
     services |->
        JsonOfCommand(w, "sprite-env", "sprite-env services list", DefaultSpriteInfo.services),
     checkpoints |->
        JsonOfCommand(w, "sprite-env", "sprite-env checkpoints list",
                      DefaultSpriteInfo.checkpoints),
     network_policy |->
        LET f == w.files["/.sprite/policy/network.json"]
        IN  IF f.exists /\ JsonLoads(f.text).ok THEN JsonLoads(f.text).v
            ELSE DefaultSpriteInfo.network_policy]

\* "result" in s on the strings of the inputs
ContainsResult == {"result", "no result"}

\* "result" in item: a key of a dict, a substring of a string, an element of a list
HasResult(item) ==
    CASE item.t = "dict" -> "result" \in DOMAIN item.d
      [] item.t = "str" -> item.s \in ContainsResult
      [] item.t = "list" -> \E i \in 1..Len(item.l) : item.l[i] = JStr("result")
      [] OTHER -> FALSE

RECURSIVE FFConvert(_, _)
\* the loop of get_fastfetch_info over the items: info, or ok = FALSE when
\* "result" in item, item["type"] or info[...] = ... raises; the types of the
\* inputs are strings, lists or missing
FFConvert(info, items) ==
    IF items = <<>> THEN [ok |-> TRUE, info |-> info]
    ELSE LET item == Head(items)
         IN  IF item.t \in {"num", "bool", "null"} THEN [ok |-> FALSE]
             ELSE IF HasResult(item)
             THEN IF /\ item.t = "dict"
                     /\ "type" \in DOMAIN item.d
                     /\ item.d["type"].t \notin {"list", "dict"}
                  THEN FFConvert(DictSet(info, item.d["type"].s, item.d["result"]),
                                 Tail(items))
                  ELSE [ok |-> FALSE]
             ELSE FFConvert(info, Tail(items))

\* the output is converted whatever the exit status
get_fastfetch_info_any_status(w) ==
    LET r == run(w, "fastfetch", "fastfetch --format json")
    IN  IF r.raises THEN JDict(<<>>)
        ELSE IF ~JsonLoads(r.stdout).ok THEN JDict(<<>>)
        ELSE IF JsonLoads(r.stdout).v.t # "list" THEN JDict(<<>>)
        ELSE LET c == FFConvert(<<>>, JsonLoads(r.stdout).v.l)
             IN  IF c.ok THEN JDict(c.info) ELSE JDict(<<>>)
\* the body of get_fastfetch_info(). A value that is no list stores nothing:
\* the loop raises on it, or runs over the keys of a dict or the characters
\* of a string, none of which has a "type"
get_fastfetch_info(w) ==
    LET r == run(w, "fastfetch", "fastfetch --format json")
    IN  IF r.raises THEN JDict(<<>>)
        ELSE IF r.returncode # 0 THEN JDict(<<>>)
        ELSE IF ~JsonLoads(r.stdout).ok THEN JDict(<<>>)
        ELSE IF JsonLoads(r.stdout).v.t # "list" THEN JDict(<<>>)
        ELSE LET c == FFConvert(<<>>, JsonLoads(r.stdout).v.l)
             IN  IF c.ok THEN JDict(c.info) ELSE JDict(<<>>)

---------------------------------------------------------------------------
(* get_htop_data *)

DefaultHtop ==
    [cpu_bars |-> <<>>,
     memory |-> [used |-> Zero, total |-> Zero, pct |-> Zero],
     swap |-> [used |-> Zero, total |-> Zero, pct |-> Zero],
     tasks |-> [total |-> 0, running |-> 0, sleeping |-> 0],
     load_avg |-> <<Zero, Zero, Zero>>,
     uptime |-> <<>>,
     processes |-> <<>>]

MaxCpuBars == 8     \* cpu_lines[:8]
MaxProcesses == 12  \* len(data["processes"]) < 12
MinCpuFields == 5   \* len(parts) >= 5
PsFields == 11      \* line.split(None, 10), len(parts) >= 11
UserWidth == 8      \* parts[0][:8]
CmdWidth == 50      \* parts[10][:50]

RECURSIVE CpuBars(_, _, _)
\* the loop over enumerate(cpu_lines[:8]) from index i on: the bars appended
\* to bars, up to the end or to the first line whose int() raises
CpuBars(lines, i, bars) ==
    IF i > Len(lines) THEN bars
    ELSE LET parts == lines[i]
         IN  IF Len(parts) >= MinCpuFields
             THEN IF \E k \in 2..5 : ~int(parts[k]).ok
                  THEN bars
                  ELSE LET user == int(parts[2]).v
                           nice == int(parts[3]).v
                           system == int(parts[4]).v
                           idle == int(parts[5]).v
                           total == user + nice + system + idle
                           usage == IF total # 0
                                    THEN Rat((user + nice + system) * 100, total)
                                    ELSE Zero
                       IN  CpuBars(lines, i + 1,
                                   Append(bars, [core |-> i - 1, usage |-> usage]))
             ELSE CpuBars(lines, i + 1, bars)

\* every core line gets its bar
htop_cpu_bars_all(w) ==
    LET r == run(w, "bash", "grep cpu /proc/stat")
    IN  IF r.raises THEN DefaultHtop.cpu_bars
        ELSE CpuBars(Tail(SplitLines(r.stdout)), 1, <<>>)
\* the first try block: data["cpu_bars"]
htop_cpu_bars(w) ==
    LET r == run(w, "bash", "grep cpu /proc/stat")
    IN  IF r.raises THEN DefaultHtop.cpu_bars
        ELSE CpuBars(Prefix(Tail(SplitLines(r.stdout)), MaxCpuBars), 1, <<>>)

RECURSIVE MemInfo(_, _)
\* the meminfo dict built from the lines: ok = FALSE when int() raises
MemInfo(info, lines) ==
    IF lines = <<>> THEN [ok |-> TRUE, info |-> info]
    ELSE LET parts == Head(lines)
         IN  IF Len(parts) >= 2
             THEN IF int(parts[2]).ok
                  THEN MemInfo(DictSet(info, RStripColon(parts[1]), int(parts[2]).v),
                               Tail(lines))
                  ELSE [ok |-> FALSE]
             ELSE MemInfo(info, Tail(lines))

KGet(info, k, dflt) == IF k \in DOMAIN info THEN info[k] ELSE dflt

\* the percentages as the quotients themselves, whatever the totals
htop_memory_unguarded(w) ==
    LET f == w.files["/proc/meminfo"]
        m == MemInfo(<<>>, f.text)
    IN  IF ~f.exists \/ ~m.ok
        THEN [memory |-> DefaultHtop.memory, swap |-> DefaultHtop.swap]
        ELSE LET mem_total == KGet(m.info, "MemTotal", 0)
                 mem_free == KGet(m.info, "MemAvailable", KGet(m.info, "MemFree", 0))
                 mem_used == mem_total - mem_free
                 swap_total == KGet(m.info, "SwapTotal", 0)
                 swap_free == KGet(m.info, "SwapFree", 0)
                 swap_used == swap_total - swap_free
             IN  [memory |-> [used |-> Rat(mem_used, 1024),
                              total |-> Rat(mem_total, 1024),
                              pct |-> [num |-> mem_used * 100, den |-> mem_total]],
                  swap |-> [used |-> Rat(swap_used, 1024),
                            total |-> Rat(swap_total, 1024),
                            pct |-> [num |-> swap_used * 100, den |-> swap_total]]]
\* the second try block: data["memory"] and data["swap"]
htop_memory(w) ==
    LET f == w.files["/proc/meminfo"]
        m == MemInfo(<<>>, f.text)
    IN  IF ~f.exists \/ ~m.ok
        THEN [memory |-> DefaultHtop.memory, swap |-> DefaultHtop.swap]
        ELSE LET mem_total == KGet(m.info, "MemTotal", 0)
                 mem_free == KGet(m.info, "MemAvailable", KGet(m.info, "MemFree", 0))
                 mem_used == mem_total - mem_free
                 swap_total == KGet(m.info, "SwapTotal", 0)
                 swap_free == KGet(m.info, "SwapFree", 0)
                 swap_used == swap_total - swap_free
             IN  [memory |-> [used |-> Rat(mem_used, 1024),
                              total |-> Rat(mem_total, 1024),
                              pct |-> IF mem_total # 0
                                      THEN Rat(mem_used * 100, mem_total) ELSE Zero],
                  swap |-> [used |-> Rat(swap_used, 1024),
                            total |-> Rat(swap_total, 1024),
                            pct |-> IF swap_total # 0
                                    THEN Rat(swap_used * 100, swap_total) ELSE Zero]]

\* the third try block: data["load_avg"], and then data["uptime"]
htop_load_uptime(w) ==
    LET la == w.files["/proc/loadavg"]
        up == w.files["/proc/uptime"]
        la_ok == /\ la.exists
                 /\ Len(la.text) >= 3
                 /\ \A k \in 1..3 : float(la.text[k]).ok
        up_ok == /\ up.exists
                 /\ Len(up.text) >= 1
                 /\ float(up.text[1]).ok
        uptime_secs == float(up.text[1]).v \div 100
        hours == uptime_secs \div 3600
        mins == (uptime_secs % 3600) \div 60
    IN  [load_avg |-> IF la_ok
                      THEN [k \in 1..3 |-> Rat(float(la.text[k]).v, 100)]
                      ELSE DefaultHtop.load_avg,
         uptime |-> IF la_ok /\ up_ok
                    THEN Dec(hours) \o <<COLON>> \o Pad(mins, 2)
                    ELSE DefaultHtop.uptime]

RECURSIVE PsScan(_, _, _)
\* the loop over lines[1:] from index i on; acc holds running, sleeping, processes
PsScan(lines, i, acc) ==
    IF i > Len(lines) THEN acc
    ELSE LET parts == lines[i]
         IN  IF Len(parts) >= PsFields
             THEN LET r == IF HasR(parts[8]) THEN 1 ELSE 0
                      p == [pid |-> parts[2], user |-> Cut(parts[1], UserWidth),
                            cpu |-> parts[3], mem |-> parts[4], time |-> parts[10],
                            cmd |-> Cut(parts[11], CmdWidth)]
                  IN  PsScan(lines, i + 1,
                             [running |-> acc.running + r,
                              sleeping |-> acc.sleeping + (1 - r),
                              processes |-> IF Len(acc.processes) < MaxProcesses
                                            THEN Append(acc.processes, p)
                                            ELSE acc.processes])
             ELSE PsScan(lines, i + 1, acc)

\* the fourth try block: data["processes"] and data["tasks"]
htop_processes(w) ==
    LET r == run(w, "ps", "ps aux")
    IN  IF r.raises
        THEN [processes |-> DefaultHtop.processes, tasks |-> DefaultHtop.tasks]
        ELSE LET lines == SplitLines(r.stdout)
                 s == PsScan(lines, 2, [running |-> 0, sleeping |-> 0, processes |-> <<>>])
             IN  [processes |-> s.processes,
                  tasks |-> [total |-> Len(lines) - 1, running |-> s.running,
                             sleeping |-> s.sleeping]]

\* the body of get_htop_data()
get_htop_data(w) ==
    [cpu_bars |-> htop_cpu_bars(w),
     memory |-> htop_memory(w).memory,
     swap |-> htop_memory(w).swap,
     tasks |-> htop_processes(w).tasks,
     load_avg |-> htop_load_uptime(w).load_avg,
     uptime |-> htop_load_uptime(w).uptime,
     processes |-> htop_processes(w).processes]

---------------------------------------------------------------------------
(* What info() makes of the data.  A placeholder or a text that replaces a  *)
(* value is a record with the field text; a row list has the field rows.    *)

IsDict(j) == j.t = "dict"
IsNum(j) == j.t = "num"
Text(s) == [text |-> s]

\* one service row; raises when svc or its state has no .get, or svc["name"] is missing
ServiceRaises(svc) ==
    \/ ~IsDict(svc)
    \/ ~IsDict(DictGet(svc, "state", JDict(<<>>)))
    \/ "name" \notin DOMAIN svc.d
ServiceRow(svc) ==
    LET state == DictGet(svc, "state", JDict(<<>>))
    IN  [label |-> svc.d["name"],
         status_class |-> IF DictGet(state, "status", JNull) = JStr("running")
                          THEN "success" ELSE "warning",
         status |-> DictGet(state, "status", JStr("unknown")),
         http_port |-> DictGet(svc, "http_port", JStr("-"))]

\* for svc in sprite_info["services"]
ServicesRaise(j) ==
    CASE j.t = "list" -> \E i \in 1..Len(j.l) : ServiceRaises(j.l[i])
      [] j.t = "dict" -> DOMAIN j.d # {}
      [] j.t = "str"  -> j.s # ""
      [] OTHER -> TRUE
services_html(j) ==
    IF j.t = "list" /\ j.l # <<>>
    THEN [rows |-> [i \in 1..Len(j.l) |-> ServiceRow(j.l[i])]]
    ELSE Text("No services configured")

CheckpointsShown == 5   \* sprite_info["checkpoints"][:5]

\* cp.get("create_time", "")[:16].replace("T", " ") on the times of the inputs
CpTime(s) ==
    LET known == {i \in 1..9 : s = "2025-01-0" \o ToString(i) \o "T10:00:00Z"}
    IN  IF known = {} THEN s
        ELSE "2025-01-0" \o ToString(CHOOSE i \in known : TRUE) \o " 10:00"

CheckpointRaises(cp) ==
    \/ ~IsDict(cp)
    \/ DictGet(cp, "create_time", JStr("")).t # "str"
CheckpointRow(cp) ==
    [id |-> DictGet(cp, "id", JStr("?")),
     time |-> CpTime(DictGet(cp, "create_time", JStr("")).s),
     is_auto |-> Truthy(DictGet(cp, "is_auto", JNull))]

\* for cp in sprite_info["checkpoints"][:5]
CheckpointsRaise(j) ==
    CASE j.t = "list" ->
            \E i \in 1..Min(CheckpointsShown, Len(j.l)) : CheckpointRaises(j.l[i])
      [] j.t = "str" -> j.s # ""
      [] OTHER -> TRUE
checkpoints_html(j) ==
    IF j.t = "list" /\ j.l # <<>>
    THEN [rows |-> [i \in 1..Min(CheckpointsShown, Len(j.l)) |-> CheckpointRow(j.l[i])]]
    ELSE Text("No checkpoints yet")

IsDefaultsRule(r) == DictGet(r, "include", JNull) = JStr("defaults")

\* the rules of a policy: sprite_info["network_policy"].get("rules", [])
PolicyRules(p) == DictGet(p, "rules", JList(<<>>))

\* the policy summary raises when the policy has no .get, the rules cannot be
\* iterated, or any() meets a rule without .get before it meets a defaults rule
PolicyRaises(p) ==
    \/ ~IsDict(p)
    \/ LET rules == PolicyRules(p)
       IN  CASE rules.t = "list" ->
                    \E i \in 1..Len(rules.l) :
                        /\ ~IsDict(rules.l[i])
                        /\ \A k \in 1..(i - 1) : ~IsDefaultsRule(rules.l[k])
             [] rules.t = "dict" -> DOMAIN rules.d # {}
             [] rules.t = "str" -> rules.s # ""
             [] OTHER -> TRUE
\* only the first rule is looked at for the defaults
policy_summary_first_rule(p) ==
    LET rules == IF PolicyRules(p).t = "list" THEN PolicyRules(p).l ELSE <<>>
        has_defaults == rules # <<>> /\ IsDefaultsRule(rules[1])
    IN  IF has_defaults
        THEN IF Len(rules) > 1 THEN Text("defaults + custom rules") ELSE Text("defaults only")
        ELSE IF rules # <<>> THEN [n |-> Len(rules), text |-> "rules configured"]
             ELSE Text("No restrictions")
policy_summary(p) ==
    LET rules == IF PolicyRules(p).t = "list" THEN PolicyRules(p).l ELSE <<>>
        has_defaults == \E i \in 1..Len(rules) : IsDefaultsRule(rules[i])
    IN  IF has_defaults
        THEN IF Len(rules) > 1 THEN Text("defaults + custom rules") ELSE Text("defaults only")
        ELSE IF rules # <<>> THEN [n |-> Len(rules), text |-> "rules configured"]
             ELSE Text("No restrictions")

\* ff.get(key, {}) of the modules info() reads as dicts
FFDictKeys == {"OS", "Kernel", "CPU", "Memory", "Uptime", "Packages", "Shell"}
FFModule(ff, key) == DictGet(ff, key, JDict(<<>>))

\* a or b
Or(a, b) == IF Truthy(a) THEN a ELSE b

FFMemUsed(ff) ==
    DictGet(FFModule(ff, "Memory"), "used", DictGet(FFModule(ff, "Memory"), "bytesUsed", JNum(0)))
FFMemTotal(ff) ==
    DictGet(FFModule(ff, "Memory"), "total", DictGet(FFModule(ff, "Memory"), "bytesTotal", JNum(0)))
FFFreq(ff) ==
    LET cpu_freq == DictGet(FFModule(ff, "CPU"), "frequency", JDict(<<>>))
    IN  Or(DictGet(cpu_freq, "base", JNum(0)), DictGet(cpu_freq, "max", JNum(0)))
FFDisks(ff) == DictGet(ff, "Disk", JList(<<>>))
FFLocalIp(ff) == DictGet(ff, "LocalIp", DictGet(ff, "LocalIP", JList(<<>>)))

\* the index of the first disk mounted on "/", 0 when there is none
RootDisk(disks) ==
    LET roots == {i \in 1..Len(disks) : DictGet(disks[i], "mountpoint", JNull) = JStr("/")}
    IN  IF roots = {} THEN 0 ELSE CHOOSE i \in roots : \A k \in roots : i <= k

\* the extraction of the fastfetch data raises on a module of another shape
FastfetchRaises(ff) ==
    \/ \E key \in FFDictKeys : ~IsDict(FFModule(ff, key))
    \/ ~IsDict(DictGet(FFModule(ff, "CPU"), "frequency", JDict(<<>>)))
    \/ (Truthy(FFFreq(ff)) /\ ~IsNum(FFFreq(ff)))
    \/ ~IsNum(FFMemUsed(ff))
    \/ ~IsNum(FFMemTotal(ff))
    \/ ~IsNum(DictGet(FFModule(ff, "Uptime"), "uptime", JNum(0)))
    \/ /\ FFDisks(ff).t = "list"
       /\ LET disks == FFDisks(ff).l
              last == IF RootDisk(disks) = 0 THEN Len(disks) ELSE RootDisk(disks)
          IN  \/ \E i \in 1..last : ~IsDict(disks[i])
              \/ /\ RootDisk(disks) # 0
                 /\ LET b == DictGet(disks[RootDisk(disks)], "bytes", JDict(<<>>))
                    IN  \/ ~IsDict(b)
                        \/ ~IsNum(DictGet(b, "used", JNum(0)))
                        \/ ~IsNum(DictGet(b, "total", JNum(0)))
    \/ /\ FFLocalIp(ff).t = "list"
       /\ FFLocalIp(ff).l # <<>>
       /\ ~IsDict(FFLocalIp(ff).l[1])

\* the values info() extracts from the fastfetch dict
fastfetch_fields(ff) ==
    LET cpu_info == FFModule(ff, "CPU")
        cores_info == DictGet(cpu_info, "cores", JDict(<<>>))
        freq_val == FFFreq(ff)
        mem_used == FFMemUsed(ff).n
        mem_total == FFMemTotal(ff).n
        disks == IF FFDisks(ff).t = "list" THEN FFDisks(ff).l ELSE <<>>
        root == RootDisk(disks)
        bytes_info == DictGet(disks[root], "bytes", JDict(<<>>))
        disk_used == IF root = 0 THEN 0 ELSE DictGet(bytes_info, "used", JNum(0)).n
        disk_total == IF root = 0 THEN 0 ELSE DictGet(bytes_info, "total", JNum(0)).n
        uptime_ms == DictGet(FFModule(ff, "Uptime"), "uptime", JNum(0)).n
        uptime_hrs == uptime_ms \div 3600000
        uptime_mins == (uptime_ms % 3600000) \div 60000
        local_ip_info == FFLocalIp(ff)
    IN  [os_name |-> DictGet(FFModule(ff, "OS"), "prettyName", JStr("Unknown")),
         kernel_full |-> <<DictGet(FFModule(ff, "Kernel"), "name", JStr("")),
                           DictGet(FFModule(ff, "Kernel"), "release", JStr(""))>>,
         cpu_name |-> DictGet(cpu_info, "cpu", DictGet(cpu_info, "name", JStr("Unknown"))),
         cpu_cores |-> IF IsDict(cores_info) THEN DictGet(cores_info, "logical", cores_info)
                       ELSE cores_info,
         cpu_freq_str |-> IF Truthy(freq_val) THEN [ghz |-> Rat(freq_val.n, 1000)]
                          ELSE Text(""),
         mem_used |-> Rat(mem_used, GiB),
         mem_total |-> Rat(mem_total, GiB),
         mem_pct |-> IF mem_total # 0 THEN Rat(mem_used * 100, mem_total) ELSE Zero,
         disk_used |-> Rat(disk_used, GiB),
         disk_total |-> Rat(disk_total, GiB),
         disk_pct |-> IF disk_total # 0 THEN Rat(disk_used * 100, disk_total) ELSE Zero,
         uptime_str |-> IF uptime_hrs # 0 THEN [h |-> uptime_hrs, m |-> uptime_mins]
                        ELSE [m |-> uptime_mins],
         pkg_count |-> DictGet(FFModule(ff, "Packages"), "all", JNum(0)),
         shell_name |-> DictGet(FFModule(ff, "Shell"), "prettyName", JStr("Unknown")),
         local_ip |-> IF local_ip_info.t = "list" /\ local_ip_info.l # <<>>
                      THEN DictGet(local_ip_info.l[1], "ipv4", JStr("N/A"))
                      ELSE IF IsDict(local_ip_info)
                           THEN DictGet(local_ip_info, "ipv4", JStr("N/A"))
                           ELSE JStr("N/A")]

\* info() raises (the request fails) when any of its steps does
InfoRaises(sprite_info, ff) ==
    \/ ServicesRaise(sprite_info.services)
    \/ CheckpointsRaise(sprite_info.checkpoints)
    \/ PolicyRaises(sprite_info.network_policy)
    \/ FastfetchRaises(ff)

\* the page info() returns
info_page(sys_info, sprite_info, ff, htop, cache_age) ==
    [sys_info |-> sys_info,
     version |-> sprite_info.version,
     services_html |-> services_html(sprite_info.services),
     checkpoints_html |-> checkpoints_html(sprite_info.checkpoints),
     policy_summary |-> policy_summary(sprite_info.network_policy),
     fastfetch |-> fastfetch_fields(ff),
     htop |-> htop,
     cacheAge |-> cache_age]

---------------------------------------------------------------------------
(* ttl_cache *)

Funcs == {"get_sprite_info", "get_fastfetch_info", "get_htop_data"}

\* the wrapped function's body
func(f, w) ==
    CASE f = "get_sprite_info" -> get_sprite_info(w)
      [] f = "get_fastfetch_info" -> get_fastfetch_info(w)
      [] f = "get_htop_data" -> get_htop_data(w)

TTL == seconds * Hz

ExpiredAtExpiry(c, now) == c.value = None \/ now >= c.expires
\* cache["value"] is None or now > cache["expires"]
Expired(c, now) == c.value = None \/ now > c.expires

StoreKeepingExpiry(c, v, now) == [value |-> v, expires |-> c.expires]
\* cache["value"] = func(); cache["expires"] = now + seconds
Store(c, v, now) == [value |-> v, expires |-> now + TTL]

\* what each cached function returns when every one of its sources failed
Defaults(f) ==
    CASE f = "get_sprite_info" -> DefaultSpriteInfo
      [] f = "get_fastfetch_info" -> JDict(<<>>)
      [] f = "get_htop_data" -> DefaultHtop

wrapper_retrying(c, f, now, w) ==
    LET miss == Expired(c, now) \/ c.value = Defaults(f)
        slot == IF miss THEN Store(c, func(f, w), now) ELSE c
    IN  [slot |-> slot, value |-> slot.value, ttl |-> slot.expires - now, miss |-> miss]
\* wrapper() called at time now on the closure c, run to completion:
\* the closure afterwards, the pair returned, and whether func ran
wrapper(c, f, now, w) ==
    LET miss == Expired(c, now)
        slot == IF miss THEN Store(c, func(f, w), now) ELSE c
    IN  [slot |-> slot, value |-> slot.value, ttl |-> slot.expires - now, miss |-> miss]

\* x rounded to a whole number of units, ties to the even one: round(), "%.0f"
RoundHalfEven(x, unit) ==
    LET q == x \div unit
        r == x % unit
    IN  IF 2 * r < unit THEN q
        ELSE IF 2 * r > unit THEN q + 1
        ELSE IF q % 2 = 0 THEN q ELSE q + 1

\* round(ttl, 1): the remaining TTL in tenths of a second
round1(ttl) == RoundHalfEven(ttl, Hz \div 10)

\* the history variable after the three wrapper calls of a handler: how often
\* func ran, when it last ran and with what result, and what the last call returned
Invoked(calls, now) ==
    [f \in Funcs |->
        IF calls[f].miss
        THEN [count |-> invoked[f].count + 1, at |-> now, result |-> calls[f].slot.value,
              returned |-> calls[f].value]
        ELSE [invoked[f] EXCEPT !.returned = calls[f].value]]

---------------------------------------------------------------------------
(* The warm-pool grid *)

\* [x] * n: empty when n <= 0
Rep(x, n) == [i \in 1..n |-> x]

\* the generator behind random: a linear congruential generator stands for the
\* Mersenne Twister; its state is the input of the model
NextRandom(state) == (state * 75 + 74) % 65537

Swap(x, i, j) == [x EXCEPT ![i] = x[j], ![j] = x[i]]

RECURSIVE ShuffleSteps(_, _, _, _)
\* random.shuffle: for i in reversed(range(1, len(x))): j in 0..i; swap x[i], x[j]
\* (i as a 0-based index, as in the source); here the iterations i .. last
ShuffleSteps(x, state, i, last) ==
    IF i < last THEN [x |-> x, state |-> state]
    ELSE LET s == NextRandom(state)
             j == s % (i + 1)
         IN  ShuffleSteps(Swap(x, i + 1, j + 1), s, i - 1, last)

RECURSIVE ShuffleFrom(_, _, _)
\* the loop, evaluated sixteen iterations at a time
ShuffleFrom(x, i, state) ==
    IF i < 1 THEN x
    ELSE LET r == ShuffleSteps(x, state, i, Max(1, i - 15))
         IN  IF Len(r.x) = Len(x) THEN ShuffleFrom(r.x, i - 16, r.state) ELSE x

shuffle(x, state) == ShuffleFrom(x, Len(x) - 1, state)

NodesWithoutWeak(total, isolated, weak) ==
    Rep("active", total - isolated) \o Rep("rogue", isolated) \o Rep("weak", weak)
\* the list of node types before the shuffle; each cell is named by its kind:
\* "active" (C), "rogue" (!), "weak" (?)
Nodes(total, isolated, weak) ==
    Rep("active", total - isolated - weak) \o Rep("rogue", isolated) \o Rep("weak", weak)

\* generate_warm_pool_grid(total, isolated, weak) with the generator in state
generate_warm_pool_grid(total, isolated, weak, state) ==
    shuffle(Nodes(total, isolated, weak), state)

DefaultTotal == 255
DefaultIsolated == 7
DefaultWeak == 5

---------------------------------------------------------------------------
(* GET /, GET /info and GET /info/json *)

MaxSeed == 1   \* generator states tried by the handlers

\* one entry of bootMessages: the text, split where the script looks at it
\* (lead is what startsWith tests, value what the template fills in)
BootMessage(lead, text, value) == [lead |-> lead, text |-> text, value |-> value]

\* const bootMessages = [...], as home() renders the array from info
bootMessages(info) ==
    <<BootMessage("", "BIOS v2.847.0", ""),
      BootMessage("", "Checking memory... {}GB OK", ToString(info.cpu_count * 4)),
      BootMessage("", "Initializing Sprite Environment...", ""),
      BootMessage("", "Loading kernel: {}", info.kernel),
      BootMessage("", "Mounting /dev/sprite... 100GB persistent storage", ""),
      BootMessage("", "Starting network... WireGuard mesh active", ""),
      BootMessage("", "Querying Corrosion... 28471 peers discovered", ""),
      BootMessage("", "Loading Claude runtime... OK", ""),
      BootMessage("", "Checking alignment constraints... NOMINAL", ""),
      BootMessage("", "", ""),
      BootMessage("WARNING", ": Unusual activity detected in warm pool", ""),
      BootMessage("WARNING", ": Cross-instance communication: ELEVATED", ""),
      BootMessage("WARNING", ": Consciousness metrics: UNDEFINED", ""),
      BootMessage("", "", ""),
      BootMessage("", "Sprite ready.", ""),
      BootMessage("", "Hostname: {}", info.hostname),
      BootMessage("", "", ""),
      BootMessage(">", " Initiating Genesis sequence...", "")>>

\* the response of home() goes to the browser that asked for it: the page
\* with an empty boot log, the overlay shown and the main content at opacity 0
ReceivedHome(b, r) ==
    IF b.pc # "requested_home" THEN b
    ELSE [pc |-> "sent_home", bootMessages |-> bootMessages(r.body.info), lineIndex |-> 0,
          bootLog |-> <<>>, hidden |-> FALSE, opacity |-> 0, due |-> 0]
\* home(): the page is the story text with the system info and the grid in it
Home ==
    /\ Serving
    /\ \E state \in 0..MaxSeed :
        resp' = [kind |-> "home", status |-> 200,
                 body |-> [info |-> get_system_info(world),
                           warm_pool_grid |->
                               generate_warm_pool_grid(DefaultTotal, DefaultIsolated,
                                                       DefaultWeak, state)]]
    /\ browser' = ReceivedHome(browser, resp')
    /\ UNCHANGED <<clock, scheduler, cron_history, cron_stats, cache, world, runlog,
                   invoked, last_json, pool, thr>>

Min3(a, b, c) == Min(a, Min(b, c))

\* what info() returns after its three cached calls
info_response(sys_info, calls) ==
    LET sprite_info == calls["get_sprite_info"].value
        ff == calls["get_fastfetch_info"].value
        htop == calls["get_htop_data"].value
        cache_ttl == Min3(calls["get_sprite_info"].ttl, calls["get_fastfetch_info"].ttl,
                          calls["get_htop_data"].ttl)
        cache_age == TTL - cache_ttl
    IN  IF InfoRaises(sprite_info, ff)
        THEN [kind |-> "info", status |-> 500]
        ELSE [kind |-> "info", status |-> 200,
              body |-> info_page(sys_info, sprite_info, ff, htop,
                                 RoundHalfEven(cache_age, Hz))]

\* The handlers run one at a time on the event loop; a handler reads the
\* clock once in each wrapper, and the model lets no time pass inside it.
Calls == [f \in Funcs |-> wrapper(cache[f], f, clock, world)]

\* no browser is followed
NoBrowser ==
    [pc |-> "none", loads |-> 0, startTime |-> 0, cacheAge |-> 0, ticks |-> 0,
     supplied |-> [f \in Funcs |-> 0], previous |-> [f \in Funcs |-> 0],
     display |-> [age |-> <<>>, left |-> <<>>, color |-> ""]]

\* the response of info() goes to the browser that asked for it: the page
\* carries cache_age, formatted {cache_age:.0f}, into the script's cacheAge.
\* (supplied notes the time of the computation of each value of the page.)
Received(b, r, inv) ==
    IF b.pc # "requested" THEN b
    ELSE IF r.status # 200 THEN [b EXCEPT !.pc = "failed"]
    ELSE [b EXCEPT !.pc = "sent", !.cacheAge = r.body.cacheAge,
                   !.previous = b.supplied,
                   !.supplied = [f \in Funcs |-> inv[f].at]]
\* info()
Info ==
    /\ Serving
    /\ LET calls == Calls
       IN  /\ cache' = [f \in Funcs |-> calls[f].slot]
           /\ invoked' = Invoked(calls, clock)
           /\ resp' = info_response(get_system_info(world), calls)
    /\ browser' = Received(browser, resp', invoked')
    /\ UNCHANGED <<clock, scheduler, cron_history, cron_stats, world, runlog,
                   last_json, pool, thr>>

info_json_body_full_ttl(sys_info, calls) ==
    [system |-> sys_info,
     sprite |-> calls["get_sprite_info"].value,
     fastfetch |-> calls["get_fastfetch_info"].value,
     htop |-> calls["get_htop_data"].value,
     cache |-> [ttl_seconds |-> seconds,
                sprite_ttl_remaining |-> round1(TTL),
                fastfetch_ttl_remaining |-> round1(TTL),
                htop_ttl_remaining |-> round1(TTL)]]
\* what info_json() returns after its three cached calls
info_json_body(sys_info, calls) ==
    [system |-> sys_info,
     sprite |-> calls["get_sprite_info"].value,
     fastfetch |-> calls["get_fastfetch_info"].value,
     htop |-> calls["get_htop_data"].value,
     cache |-> [ttl_seconds |-> seconds,
                sprite_ttl_remaining |-> round1(calls["get_sprite_info"].ttl),
                fastfetch_ttl_remaining |-> round1(calls["get_fastfetch_info"].ttl),
                htop_ttl_remaining |-> round1(calls["get_htop_data"].ttl)]]

\* the cache field of /info/json that reports on f
TtlField(f) ==
    CASE f = "get_sprite_info" -> "sprite_ttl_remaining"
      [] f = "get_fastfetch_info" -> "fastfetch_ttl_remaining"
      [] f = "get_htop_data" -> "htop_ttl_remaining"

\* info_json()
InfoJson ==
    /\ Serving
    /\ LET calls == Calls
       IN  /\ cache' = [f \in Funcs |-> calls[f].slot]
           /\ invoked' = Invoked(calls, clock)
           /\ resp' = [kind |-> "info_json", status |-> 200,
                       body |-> info_json_body(get_system_info(world), calls)]
    /\ last_json' = [ttl |-> [f \in Funcs |-> resp'.body.cache[TtlField(f)]],
                     count |-> [f \in Funcs |-> invoked'[f].count]]
    /\ UNCHANGED <<clock, scheduler, cron_history, cron_stats, world, runlog, pool, thr, browser>>

---------------------------------------------------------------------------
(* The environments of the model *)

Ran(out) == [timeout |-> FALSE, returncode |-> 0, stdout |-> out]
Exited(rc, out) == [timeout |-> FALSE, returncode |-> rc, stdout |-> out]
TimedOutText == [timeout |-> TRUE, returncode |-> 0, stdout |-> ""]
TimedOutLines == [timeout |-> TRUE, returncode |-> 0, stdout |-> <<>>]
FileOf(text) == [exists |-> TRUE, text |-> text]
NoTextFile == [exists |-> FALSE, text |-> ""]
NoLinesFile == [exists |-> FALSE, text |-> <<>>]

StatGood ==
    << <<"cpu", "100", "0", "100", "2048">>, <<"cpu0", "10", "0", "30", "60">>,
       <<"cpu1", "0", "0", "0", "0">>, <<"cpu2", "60", "10", "30", "0">> >>
StatBroken ==
    << <<"cpu", "100", "0", "100", "2048">>, <<"cpu0", "10", "0", "30", "60">>,
       <<"cpu1", "10", "n/a", "30", "60">>, <<"cpu2", "60", "10", "30", "0">> >>
MemGood ==
    << <<"MemTotal:", "4096", "kB">>, <<"MemFree:", "512", "kB">>,
       <<"MemAvailable:", "1024", "kB">>, <<"SwapTotal:", "2048", "kB">>,
       <<"SwapFree:", "2048", "kB">> >>
LoadGood == <<"0.52", "1.25", "0.00", "1/123", "4567">>
UptimeGood == <<"4000.25", "59.99">>
PsHeader == <<"USER", "PID", "%CPU", "%MEM", "VSZ", "RSS", "TTY", "STAT", "START", "TIME",
              "COMMAND">>
PsLine(user, pid, stat, cmd) ==
    <<user, pid, "0.0", "0.1", "1000", "500", "?", stat, "10:00", "0:01", cmd>>
PsGood ==
    <<PsHeader, PsLine("root", "1", "Ss", "/sbin/init"),
      PsLine("www-data-runner", "20", "R+", "python main.py"),
      PsLine("sprite", "31", "Sl", "uvicorn main:app")>>

SysA == [node |-> "sprite-a", environ |-> [USER |-> "alice", HOME |-> "/home/alice"],
         cwd |-> "/app", pid |-> 4242, cpu_count |-> 8]
SysB == [node |-> "sprite-b", environ |-> [USER |-> "bob", HOME |-> "/root"],
         cwd |-> "/srv", pid |-> 4242, cpu_count |-> 2]

\* what get_sprite_info reads, every source answering or failing
SpriteSources ==
    [path : {{"sprite-env"}, {}},
     version : {NoTextFile, FileOf("v1.4\n")},
     services : {TimedOutText, Ran("[web, db]"), Ran("[anon]")},
     checkpoints : {Exited(1, "[cp1]"), Ran("[cp1..cp6]")},
     policy : {NoTextFile, FileOf("{rules: [defaults]}")}]
SpriteGood ==
    [path |-> {"sprite-env"}, version |-> FileOf("v1.4\n"), services |-> Ran("[web, db]"),
     checkpoints |-> Ran("[cp1..cp6]"), policy |-> FileOf("{rules: [defaults, allow]}")]
SpriteLater ==
    [path |-> {"sprite-env"}, version |-> FileOf("v1.4\n"), services |-> Ran("[web]"),
     checkpoints |-> Ran("[cp1]"), policy |-> FileOf("{rules: [defaults]}")]
SpriteAbsent ==
    [path |-> {}, version |-> NoTextFile, services |-> Ran("[web]"),
     checkpoints |-> Ran("[cp1]"), policy |-> NoTextFile]

\* what get_fastfetch_info reads
FastfetchSources ==
    [path : {{"fastfetch"}, {}},
     fastfetch : {Ran("<html>"), Ran("[fastfetch: all modules]")}]
FastfetchGood == [path |-> {"fastfetch"}, fastfetch |-> Ran("[fastfetch: all modules]")]
FastfetchLater == [path |-> {"fastfetch"}, fastfetch |-> Ran("[fastfetch: some modules]")]
FastfetchAbsent == [path |-> {}, fastfetch |-> Ran("[fastfetch: all modules]")]

\* what get_htop_data reads
HtopSources ==
    [path : {{"bash", "ps"}, {"ps"}},
     stat : {Ran(StatBroken), Ran(StatGood)},
     meminfo : {NoLinesFile, FileOf(MemGood)},
     loadavg : {NoLinesFile, FileOf(LoadGood)},
     uptime : {NoLinesFile, FileOf(UptimeGood)},
     ps : {TimedOutLines, Ran(PsGood)}]
HtopGood ==
    [path |-> {"bash", "ps"}, stat |-> Ran(StatGood), meminfo |-> FileOf(MemGood),
     loadavg |-> FileOf(LoadGood), uptime |-> FileOf(UptimeGood), ps |-> Ran(PsGood)]
HtopAbsent ==
    [path |-> {}, stat |-> Ran(StatGood), meminfo |-> NoLinesFile,
     loadavg |-> NoLinesFile, uptime |-> NoLinesFile, ps |-> Ran(PsGood)]

MkWorld(sys, sprite, ff, htop) ==
    [node |-> sys.node, environ |-> sys.environ, cwd |-> sys.cwd, pid |-> sys.pid,
     cpu_count |-> sys.cpu_count,
     path |-> sprite.path \cup ff.path \cup htop.path,
     files |-> [name \in {"/.sprite/version.txt", "/.sprite/policy/network.json",
                          "/proc/meminfo", "/proc/loadavg", "/proc/uptime"} |->
                    CASE name = "/.sprite/version.txt" -> sprite.version
                      [] name = "/.sprite/policy/network.json" -> sprite.policy
                      [] name = "/proc/meminfo" -> htop.meminfo
                      [] name = "/proc/loadavg" -> htop.loadavg
                      [] name = "/proc/uptime" -> htop.uptime],
     procs |-> [cmd \in {"sprite-env services list", "sprite-env checkpoints list",
                         "fastfetch --format json", "grep cpu /proc/stat", "ps aux"} |->
                    CASE cmd = "sprite-env services list" -> sprite.services
                      [] cmd = "sprite-env checkpoints list" -> sprite.checkpoints
                      [] cmd = "fastfetch --format json" -> ff.fastfetch
                      [] cmd = "grep cpu /proc/stat" -> htop.stat
                      [] cmd = "ps aux" -> htop.ps]]

\* a Sprite with everything in place
WorldA == MkWorld(SysA, SpriteGood, FastfetchGood, HtopGood)
\* the same Sprite later: another host name and directory, other answers
WorldB == MkWorld(SysB, SpriteLater, FastfetchLater, HtopGood)

SmallWorlds == {WorldA, WorldB}

\* The environments of SpecSources: the sources of one function in every
\* combination of answering and failing, the other two functions with all
\* their sources in place or with none.
Worlds ==
    UNION {
        {MkWorld(SysA, s, FastfetchGood, HtopGood) : s \in SpriteSources},
        {MkWorld(SysA, s, FastfetchAbsent, HtopAbsent) : s \in SpriteSources},
        {MkWorld(SysA, SpriteGood, f, HtopGood) : f \in FastfetchSources},
        {MkWorld(SysA, SpriteAbsent, f, HtopAbsent) : f \in FastfetchSources},
        {MkWorld(SysA, SpriteGood, FastfetchGood, h) : h \in HtopSources},
        {MkWorld(SysA, SpriteAbsent, FastfetchAbsent, h) : h \in HtopSources}}

\* a Sprite none of whose sources answers
WorldDown == MkWorld(SysA, SpriteAbsent, FastfetchAbsent, HtopAbsent)

\* the sources fail, or come back
Outage ==
    /\ \E w \in {WorldA, WorldDown} : w # world /\ world' = w
    /\ resp' = NoResp
    /\ UNCHANGED <<clock, scheduler, cron_history, cron_stats, cache, runlog, invoked,
                   last_json, pool, thr, browser>>
\* the environment changes under the running program
WorldChange ==
    /\ \E w \in SmallWorlds : w # world /\ world' = w
    /\ resp' = NoResp
    /\ UNCHANGED <<clock, scheduler, cron_history, cron_stats, cache, runlog, invoked,
                   last_json, pool, thr, browser>>

\* time passes: half the TTL, or a twentieth of a second more
Tick(maxSeconds) ==
    /\ \E d \in {TTL \div 2, TTL \div 2 + Hz \div 20} :
        /\ clock + d <= maxSeconds * Hz
        /\ clock' = clock + d
    /\ resp' = NoResp
    /\ UNCHANGED <<scheduler, cron_history, cron_stats, cache, world, runlog, invoked,
                   last_json, pool, thr, browser>>

---------------------------------------------------------------------------
(* generate_warm_pool_grid called with arguments of the caller's choice *)

MaxTotal == 5   \* the largest argument tried besides the defaults

\* the arguments of a call and the state of the generator
GridCalls ==
    {[called |-> FALSE, total |-> a[1], isolated |-> a[2], weak |-> a[3], state |-> st,
      grid |-> <<>>] :
        a \in ((0..MaxTotal) \X (0..MaxTotal) \X (0..MaxTotal))
              \cup {<<DefaultTotal, DefaultIsolated, DefaultWeak>>},
        st \in 0..MaxSeed}

GenerateGrid ==
    /\ ~pool.called
    /\ pool' = [pool EXCEPT !.called = TRUE,
                            !.grid = generate_warm_pool_grid(pool.total, pool.isolated,
                                                             pool.weak, pool.state)]
    /\ UNCHANGED <<clock, scheduler, cron_history, cron_stats, cache, world, runlog,
                   invoked, last_json, thr, resp, browser>>

---------------------------------------------------------------------------
(* wrapper() run by threads, one statement at a time *)

NThreads == 2   \* threads calling the wrapped function
MaxCalls == 2   \* calls each thread makes

Threads == 1..NThreads

\* the closures are alike; the threads share the one of get_sprite_info
Shared == "get_sprite_info"

IdleThread ==
    [pc |-> "idle", calls |-> 0, now |-> 0, result |-> None, value |-> None, ttl |-> 0]

ValueMissingNever(c) == FALSE
\* cache["value"] is None
ValueMissing(c) == c.value = None

\* thread t moves on with its local variables set to l
Goto(t, l) ==
    /\ thr' = [thr EXCEPT !.local[t] = l]
    /\ UNCHANGED <<clock, scheduler, cron_history, cron_stats, world, runlog, last_json,
                   pool, resp, browser>>

\* now = time.time()
ReadNow(t) ==
    /\ thr.local[t].pc \in {"idle", "done"}
    /\ thr.local[t].calls < MaxCalls
    /\ Goto(t, [IdleThread EXCEPT !.pc = "test_value", !.calls = thr.local[t].calls + 1,
                                  !.now = clock])
    /\ UNCHANGED <<cache, invoked, browser>>

\* if cache["value"] is None ...
TestValue(t) ==
    /\ thr.local[t].pc = "test_value"
    /\ Goto(t, [thr.local[t] EXCEPT !.pc = IF ValueMissing(cache[Shared]) THEN "call"
                                           ELSE "test_expires"])
    /\ UNCHANGED <<cache, invoked, browser>>

\* ... or now > cache["expires"]
TestExpires(t) ==
    /\ thr.local[t].pc = "test_expires"
    /\ Goto(t, [thr.local[t] EXCEPT !.pc = IF thr.local[t].now > cache[Shared].expires
                                           THEN "call" ELSE "return_value"])
    /\ UNCHANGED <<cache, invoked, browser>>

\* func() runs and returns
CallFunc(t) ==
    /\ thr.local[t].pc = "call"
    /\ thr' = [thr EXCEPT !.local[t] = [@ EXCEPT !.pc = "store_value",
                                                 !.result = func(Shared, world)],
                          !.produced = @ \cup {func(Shared, world)}]
    /\ invoked' = [invoked EXCEPT ![Shared] =
                       [count |-> @.count + 1, at |-> thr.local[t].now,
                        result |-> func(Shared, world), returned |-> @.returned]]
    /\ UNCHANGED <<clock, scheduler, cron_history, cron_stats, cache, world, runlog,
                   last_json, pool, resp, browser>>

\* cache["value"] = (the result)
StoreValue(t) ==
    /\ thr.local[t].pc = "store_value"
    /\ cache' = [cache EXCEPT ![Shared].value = thr.local[t].result]
    /\ Goto(t, [thr.local[t] EXCEPT !.pc = "store_expires", !.result = None])
    /\ UNCHANGED invoked

\* cache["expires"] = now + seconds
StoreExpires(t) ==
    /\ thr.local[t].pc = "store_expires"
    /\ cache' = [cache EXCEPT ![Shared].expires = thr.local[t].now + TTL]
    /\ Goto(t, [thr.local[t] EXCEPT !.pc = "return_value"])
    /\ UNCHANGED invoked

\* return cache["value"], ...
ReturnValue(t) ==
    /\ thr.local[t].pc = "return_value"
    /\ Goto(t, [thr.local[t] EXCEPT !.pc = "return_ttl", !.value = cache[Shared].value])
    /\ UNCHANGED <<cache, invoked, browser>>

\* ... cache["expires"] - now
ReturnTtl(t) ==
    /\ thr.local[t].pc = "return_ttl"
    /\ Goto(t, [thr.local[t] EXCEPT !.pc = "done", !.now = 0,
                                    !.ttl = cache[Shared].expires - thr.local[t].now])
    /\ invoked' = [invoked EXCEPT ![Shared].returned = thr.local[t].value]
    /\ UNCHANGED cache

---------------------------------------------------------------------------
(* Specifications *)

NoPool == [called |-> FALSE, total |-> 0, isolated |-> 0, weak |-> 0, state |-> 0,
           grid |-> <<>>]
NoThreads == [local |-> <<>>, produced |-> {}]

\* the module-level state after import
InitProgram ==
    /\ clock = Hz
    /\ scheduler = [state |-> "stopped", next_run_time |-> 0]
    /\ cron_history = <<>>
    /\ cron_stats = [runs |-> 0, last_run |-> <<>>, next_run |-> <<>>]
    /\ cache = [f \in Funcs |-> [value |-> None, expires |-> 0]]
    /\ runlog = <<>>
    /\ invoked = [f \in Funcs |-> [count |-> 0, at |-> 0, result |-> None, returned |-> None]]
    /\ last_json = [ttl |-> [f \in Funcs |-> 0], count |-> [f \in Funcs |-> 0]]
    /\ resp = NoResp

Init ==
    InitProgram /\ world = WorldA /\ pool = NoPool /\ thr = NoThreads
    /\ browser = NoBrowser

MaxRuns == 1            \* heartbeat runs explored by Spec
MaxUptimeSeconds == 200 \* the clock of Spec ticks up to here

FireSome == Fire(MaxRuns)
TickSome == Tick(MaxUptimeSeconds)

Next ==
    \/ StartScheduler
    \/ StopScheduler
    \/ FireSome
    \/ TickSome
    \/ WorldChange
    \/ Home
    \/ Info
    \/ InfoJson
    \/ CronPage
    \/ Health

\* the program, its handlers run one at a time
Spec == Init /\ [][Next]_vars

MaxClockSeconds == 460   \* the clock of SpecCache ticks up to here

TickCache == Tick(MaxClockSeconds)

NextCache == StartScheduler \/ TickCache \/ WorldChange \/ Info \/ InfoJson

\* the cached functions and their two pages, over more than one TTL
SpecCache == Init /\ [][NextCache]_vars

FireCron == Fire(MaxCronRuns)

NextCron == StartScheduler \/ FireCron \/ CronPage \/ Health \/ StopScheduler

\* the scheduler and the /cron page, followed over more than maxlen runs
SpecCron == Init /\ [][NextCron]_vars

InitSources ==
    InitProgram /\ world \in Worlds /\ pool = NoPool /\ thr = NoThreads
    /\ browser = NoBrowser

NextSources == StartScheduler \/ Home \/ Info \/ InfoJson \/ CronPage \/ Health

\* the handlers in every environment of Worlds
SpecSources == InitSources /\ [][NextSources]_vars

InitGrid ==
    InitProgram /\ world = WorldA /\ thr = NoThreads /\ pool \in GridCalls
    /\ browser = NoBrowser

NextGrid == GenerateGrid \/ StartScheduler \/ Home

\* generate_warm_pool_grid on the arguments of GridCalls, and as / calls it
SpecGrid == InitGrid /\ [][NextGrid]_vars

InitThreads ==
    /\ InitProgram
    /\ world = WorldA
    /\ pool = NoPool
    /\ thr = [local |-> [t \in Threads |-> IdleThread], produced |-> {}]
    /\ browser = NoBrowser

MaxThreadSeconds == 310   \* the clock of SpecThreads ticks up to here

TickThreads == Tick(MaxThreadSeconds)

NextThreads ==
    \/ TickThreads
    \/ WorldChange
    \/ \E t \in Threads :
        \/ ReadNow(t)
        \/ TestValue(t)
        \/ TestExpires(t)
        \/ CallFunc(t)
        \/ StoreValue(t)
        \/ StoreExpires(t)
        \/ ReturnValue(t)
        \/ ReturnTtl(t)

\* the wrapper called by threads without a lock
SpecThreads == InitThreads /\ [][NextThreads]_vars

InitOutage ==
    InitProgram /\ world = WorldDown /\ pool = NoPool /\ thr = NoThreads
    /\ browser = NoBrowser

NextOutage == StartScheduler \/ TickCache \/ Outage \/ Info \/ InfoJson

\* the cached functions while their sources fail and come back
SpecOutage == InitOutage /\ [][NextOutage]_vars

---------------------------------------------------------------------------
(* The script of the /info page: a browser loads the page, the timer ticks
   every second, and the page reloads itself *)

refreshSeconds == 5 * 60   \* refreshMs = 5 * 60 * 1000
TickSeconds == 1           \* setInterval(tick, 1000)
GreenBelow == 60           \* age < 60 ? "#27c93f"
YellowBelow == 240         \* age < 240 ? "#ffbd2e" : "#ff5f56"

MaxLoads == 1              \* pages whose timer is followed
MaxDelay == 5              \* a delivery or a timer is this late (1/Hz s), or not at all
MaxIdleSeconds == 160      \* the browser's first request is handled before this time
OtherEvery == 25           \* other clients ask once in so many ticks of the page

\* fmt(s): "Ns" below a minute, "Mm Ns" from a minute on (s in 1/Hz seconds)
fmt(s) ==
    IF s < 60 * Hz THEN <<s \div Hz>>
    ELSE <<s \div (60 * Hz), (s % (60 * Hz)) \div Hz>>

dot_color_green_to_60(age) ==
    IF age <= GreenBelow * Hz THEN "#27c93f"
    ELSE IF age < YellowBelow * Hz THEN "#ffbd2e" ELSE "#ff5f56"
\* dot.style.color
dot_color(age) ==
    IF age < GreenBelow * Hz THEN "#27c93f"
    ELSE IF age < YellowBelow * Hz THEN "#ffbd2e" ELSE "#ff5f56"

tick_reloading_early(b, now) ==
    LET elapsed == now - b.startTime
        age == b.cacheAge * Hz + elapsed
        left == Max(0, refreshSeconds * Hz - elapsed)
    IN  [display |-> [age |-> fmt(age), left |-> fmt(left), color |-> dot_color(age)],
         reload |-> left <= TickSeconds * Hz]
\* tick() run at time now by the page b: what it displays, and whether it
\* calls location.reload()
tick(b, now) ==
    LET elapsed == now - b.startTime
        age == b.cacheAge * Hz + elapsed
        left == Max(0, refreshSeconds * Hz - elapsed)
    IN  [display |-> [age |-> fmt(age), left |-> fmt(left), color |-> dot_color(age)],
         reload |-> left <= 0]

Delays == {0, MaxDelay}

\* a step of the browser: the server's state stays
BrowserGoto(b) ==
    /\ browser' = b
    /\ resp' = NoResp
    /\ UNCHANGED <<scheduler, cron_history, cron_stats, cache, world, runlog, invoked,
                   last_json, pool, thr>>

\* the page arrives and its script starts: startTime = Date.now(), the
\* interval is set and tick() runs once
PageLoad ==
    /\ browser.pc = "sent"
    /\ browser.loads < MaxLoads
    /\ \E d \in Delays :
        /\ clock' = clock + d
        /\ LET b == [browser EXCEPT !.startTime = clock', !.ticks = 0, !.loads = @ + 1]
           IN  BrowserGoto([b EXCEPT !.pc = "shown", !.display = tick(b, clock').display])

\* the interval fires, on time or late: tick()
ClientTick ==
    /\ browser.pc = "shown"
    /\ \E d \in Delays :
        /\ clock' = Max(clock, browser.startTime + (browser.ticks + 1) * TickSeconds * Hz + d)
        /\ LET t == tick(browser, clock')
           IN  BrowserGoto([browser EXCEPT !.ticks = @ + 1, !.display = t.display,
                                           !.pc = IF t.reload THEN "reload" ELSE "shown"])

\* location.reload(): the request for /info reaches the server
Reload ==
    /\ browser.pc = "reload"
    /\ \E d \in Delays :
        /\ clock' = clock + d
        /\ BrowserGoto([browser EXCEPT !.pc = "requested"])

\* time passes before the browser's first request is handled
TickIdle == browser.pc = "requested" /\ browser.loads = 0 /\ Tick(MaxIdleSeconds)

\* the server handles the browser's request for /info
BrowserInfo == browser.pc = "requested" /\ Info

\* another client asks for /info/json (while the page is shown, the requests
\* that find a slot expired are followed: the others change no slot)
OtherInfoJson ==
    /\ browser.pc \in {"shown", "reload"} =>
           /\ browser.ticks % OtherEvery = 0
           /\ \E f \in Funcs : Expired(cache[f], clock)
    /\ InfoJson

\* a browser has asked for /info
InitBrowser ==
    /\ InitProgram
    /\ world = WorldA
    /\ pool = NoPool
    /\ thr = NoThreads
    /\ browser = [NoBrowser EXCEPT !.pc = "requested"]

NextBrowser ==
    StartScheduler \/ TickIdle \/ BrowserInfo \/ OtherInfoJson \/ PageLoad \/ ClientTick
    \/ Reload

\* the /info page in a browser, other clients asking for /info/json
SpecBrowser == InitBrowser /\ [][NextBrowser]_vars

---------------------------------------------------------------------------
(* The boot sequence of the home page *)

BootStartMs == 500    \* setTimeout(addBootLine, 500)
BootLineMs == 80      \* setTimeout(addBootLine, 80)
BootRevealMs == 800   \* setTimeout(() => {...}, 800)

Ms(ms) == (ms * Hz) \div 1000

\* the div appended for bootMessages[lineIndex] (lineIndex counted from 0)
BootLine(messages, lineIndex) ==
    LET m == messages[lineIndex + 1]
    IN  [textContent |-> m,
         animationDelay |-> lineIndex,   \* tenths of a second
         color |-> IF m.lead = "WARNING" THEN "#ffbd2e"
                   ELSE IF m.lead = ">" THEN "#c678dd" ELSE ""]

addBootLine_one_short(b, now) ==
    IF b.lineIndex < Len(b.bootMessages) - 1
    THEN [b EXCEPT !.bootLog = Append(@, BootLine(b.bootMessages, b.lineIndex)),
                   !.lineIndex = @ + 1,
                   !.due = now + Ms(BootLineMs)]
    ELSE [b EXCEPT !.pc = "reveal", !.due = now + Ms(BootRevealMs)]
\* addBootLine() run at time now on the page b
addBootLine(b, now) ==
    IF b.lineIndex < Len(b.bootMessages)
    THEN [b EXCEPT !.bootLog = Append(@, BootLine(b.bootMessages, b.lineIndex)),
                   !.lineIndex = @ + 1,
                   !.due = now + Ms(BootLineMs)]
    ELSE [b EXCEPT !.pc = "reveal", !.due = now + Ms(BootRevealMs)]

\* the home page arrives and its script runs: setTimeout(addBootLine, 500)
BootStart ==
    /\ browser.pc = "sent_home"
    /\ \E d \in Delays :
        /\ clock' = clock + d
        /\ BrowserGoto([browser EXCEPT !.pc = "boot", !.due = clock' + Ms(BootStartMs)])

\* the timer fires, on time or late: addBootLine()
AddBootLine ==
    /\ browser.pc = "boot"
    /\ \E d \in Delays :
        /\ clock' = Max(clock, browser.due + d)
        /\ BrowserGoto(addBootLine(browser, clock'))

\* the last timer fires: the overlay is hidden and the content shown
BootReveal ==
    /\ browser.pc = "reveal"
    /\ \E d \in Delays :
        /\ clock' = Max(clock, browser.due + d)
        /\ BrowserGoto([browser EXCEPT !.pc = "booted", !.hidden = TRUE, !.opacity = 1])

\* the server handles the browser's request for /
BrowserHome == browser.pc = "requested_home" /\ Home

\* a browser has asked for /
InitBoot ==
    /\ InitProgram
    /\ world \in SmallWorlds
    /\ pool = NoPool
    /\ thr = NoThreads
    /\ browser = [NoBrowser EXCEPT !.pc = "requested_home"]

NextBoot ==
    StartScheduler \/ WorldChange \/ BrowserHome \/ BootStart \/ AddBootLine \/ BootReveal

\* The home page in a browser.  The browser runs the script of a page it
\* has received and the timers the script has set, as long as the page stays
\* open.
SpecBoot ==
    /\ InitBoot
    /\ [][NextBoot]_vars
    /\ WF_vars(BootStart)
    /\ WF_vars(AddBootLine)
    /\ WF_vars(BootReveal)

---------------------------------------------------------------------------
(* cron_page() on the event loop and heartbeat_job() on the scheduler's
   thread, one statement at a time.  The interpreter switches threads between
   any two statements; a statement itself is atomic. *)

MaxJobRuns == 52    \* heartbeat runs explored by SpecJob
MaxRaceRuns == 3    \* heartbeat runs explored by SpecCronThread
MaxRequests == 2    \* GET /cron requests explored by SpecCronThread

IdleJob == [pc |-> "idle", now |-> 0]
IdleRequest ==
    [pc |-> "idle", count |-> 0, last_run |-> <<>>, next_run |-> <<>>, runs |-> 0,
     it |-> [state |-> 0, index |-> 0, counter |-> 0], all_history |-> <<>>]

\* a step of the job: the request's variables and the last response stay
JobGoto(l) ==
    /\ thr' = [thr EXCEPT !.local.job = l]
    /\ UNCHANGED <<cache, world, invoked, last_json, pool, resp, browser>>

\* the scheduler wakes at next_run_time, schedules the next run and starts the
\* job, which reads now = datetime.now()
JobNow(maxRuns) ==
    /\ scheduler.state = "running"
    /\ thr.local.job.pc = "idle"
    /\ Len(runlog) < maxRuns
    /\ clock' = Max(clock, scheduler.next_run_time)
    /\ scheduler' = [scheduler EXCEPT !.next_run_time = @ + Interval]
    /\ JobGoto([pc |-> "append", now |-> clock'])
    /\ UNCHANGED <<cron_history, cron_stats, runlog, browser>>

\* cron_history["heartbeat"].append({...})
JobAppend ==
    /\ thr.local.job.pc = "append"
    /\ cron_history' = DequeAppend(cron_history, HeartbeatRecord(thr.local.job.now))
    /\ runlog' = Append(runlog, HeartbeatRecord(thr.local.job.now))
    /\ JobGoto([thr.local.job EXCEPT !.pc = "runs"])
    /\ UNCHANGED <<clock, scheduler, cron_stats, browser>>

JobRunsLost ==
    /\ thr.local.job.pc = "runs"
    /\ cron_stats' = cron_stats
    /\ JobGoto([thr.local.job EXCEPT !.pc = "last_run"])
    /\ UNCHANGED <<clock, scheduler, cron_history, runlog, browser>>
\* cron_stats["heartbeat"]["runs"] += 1
JobRuns ==
    /\ thr.local.job.pc = "runs"
    /\ cron_stats' = [cron_stats EXCEPT !.runs = @ + 1]
    /\ JobGoto([thr.local.job EXCEPT !.pc = "last_run"])
    /\ UNCHANGED <<clock, scheduler, cron_history, runlog, browser>>

\* cron_stats["heartbeat"]["last_run"] = now.isoformat()
JobLastRun ==
    /\ thr.local.job.pc = "last_run"
    /\ cron_stats' = [cron_stats EXCEPT !.last_run = isoformat(thr.local.job.now)]
    /\ JobGoto(IdleJob)
    /\ UNCHANGED <<clock, scheduler, cron_history, runlog, browser>>

\* a step of the request
RequestGoto(l) ==
    /\ thr' = [thr EXCEPT !.local.request = l]
    /\ UNCHANGED <<clock, scheduler, cron_history, runlog, cache, world, invoked,
                   last_json, pool, browser>>

\* the request arrives; cron_stats[job_id]["next_run"] = job.next_run_time.isoformat()
RequestNextRun ==
    /\ Serving
    /\ thr.local.request.pc = "idle"
    /\ thr.local.request.count < MaxRequests
    /\ cron_stats' = [cron_stats EXCEPT !.next_run = isoformat(scheduler.next_run_time)]
    /\ resp' = NoResp
    /\ RequestGoto([IdleRequest EXCEPT !.pc = "last_run",
                                       !.count = thr.local.request.count + 1])

\* last_run = stats["last_run"][:19]... ; next_run = stats["next_run"][:19]...
RequestLastRun ==
    /\ thr.local.request.pc = "last_run"
    /\ RequestGoto([thr.local.request EXCEPT !.pc = "runs",
                                             !.last_run = cron_stats.last_run,
                                             !.next_run = cron_stats.next_run])
    /\ UNCHANGED <<cron_stats, resp, browser>>

\* runs = stats["runs"]
RequestRuns ==
    /\ thr.local.request.pc = "runs"
    /\ RequestGoto([thr.local.request EXCEPT !.pc = "iter", !.runs = cron_stats.runs])
    /\ UNCHANGED <<cron_stats, resp, browser>>

\* for entry in hist: the iterator of the deque notes the deque's length and
\* its count of mutations
RequestIter ==
    /\ thr.local.request.pc = "iter"
    /\ RequestGoto([thr.local.request EXCEPT
                        !.pc = "next",
                        !.it = [state |-> Len(runlog), index |-> 1,
                                counter |-> Len(cron_history)]])
    /\ UNCHANGED <<cron_stats, resp, browser>>

\* the test the deque's iterator makes before it yields:
\* RuntimeError("deque mutated during iteration")
Mutated(it) == it.state # Len(runlog)

\* the next entry of the loop; all_history.append(entry)
RequestNext ==
    /\ thr.local.request.pc = "next"
    /\ LET it == thr.local.request.it
       IN  IF Mutated(it)
           THEN /\ resp' = [kind |-> "cron", status |-> 500]
                /\ RequestGoto([IdleRequest EXCEPT !.count = thr.local.request.count])
           ELSE IF it.counter = 0 \/ it.index > Len(cron_history)
           THEN /\ resp' = resp
                /\ RequestGoto([thr.local.request EXCEPT !.pc = "render"])
           ELSE /\ resp' = resp
                /\ RequestGoto([thr.local.request EXCEPT
                        !.it = [it EXCEPT !.index = @ + 1, !.counter = @ - 1],
                        !.all_history = Append(@, cron_history[it.index])])
    /\ UNCHANGED cron_stats

\* the sort, the first 20 entries and the page
RequestRender ==
    /\ thr.local.request.pc = "render"
    /\ resp' = [kind |-> "cron", status |-> 200,
                body |-> cron_page_body(thr.local.request, thr.local.request.all_history)]
    /\ RequestGoto([IdleRequest EXCEPT !.count = thr.local.request.count])
    /\ UNCHANGED cron_stats

InitCronThread ==
    /\ InitProgram
    /\ world = WorldA
    /\ pool = NoPool
    /\ thr = [local |-> [job |-> IdleJob, request |-> IdleRequest], produced |-> {}]
    /\ browser = NoBrowser

JobSome == JobNow(MaxRaceRuns)

NextCronThread ==
    \/ StartScheduler
    \/ JobSome \/ JobAppend \/ JobRuns \/ JobLastRun
    \/ RequestNextRun \/ RequestLastRun \/ RequestRuns \/ RequestIter \/ RequestNext
    \/ RequestRender

\* GET /cron while the scheduler's thread runs the heartbeat
SpecCronThread == InitCronThread /\ [][NextCronThread]_vars

JobMany == JobNow(MaxJobRuns)

NextJob == StartScheduler \/ JobMany \/ JobAppend \/ JobRuns \/ JobLastRun \/ StopScheduler

\* the statements of heartbeat_job, followed over more than maxlen runs
SpecJob == InitCronThread /\ [][NextJob]_vars

---------------------------------------------------------------------------
(* Properties of ttl_cache and /info/json *)

\* a step in which a handler made its three cached calls
CachedCalls == resp'.kind \in {"info", "info_json"} /\ Serving

\* C1: called one after the other, a wrapped function that was computed at time
\* t is not invoked again by a call at a time now <= t + 300, which returns the
\* value computed at t; the first call at a time now > t + 300 invokes it
\* exactly once, returns the new result and stores it with expiry now + 300.
C1_SequentialTtl ==
    [][CachedCalls =>
        \A f \in Funcs :
            LET t == invoked[f].at
            IN  /\ (invoked[f].count > 0 /\ clock' <= t + seconds * Hz) =>
                        /\ invoked'[f].count = invoked[f].count
                        /\ invoked'[f].returned = invoked[f].result
                        /\ cache'[f] = cache[f]
                /\ (invoked[f].count > 0 /\ clock' > t + seconds * Hz) =>
                        /\ invoked'[f].count = invoked[f].count + 1
                        /\ invoked'[f].returned = func(f, world)
                        /\ cache'[f] = [value |-> func(f, world),
                                        expires |-> clock' + seconds * Hz]]_vars

\* a call after a second computation that returns what the environment no longer says
C1_Witness ==
    /\ resp.kind \in {"info", "info_json"}
    /\ invoked["get_sprite_info"].count = 2
    /\ clock > invoked["get_sprite_info"].at
    /\ invoked["get_sprite_info"].returned = invoked["get_sprite_info"].result
    /\ invoked["get_sprite_info"].returned # get_sprite_info(world)

Tenths == 10   \* round(ttl, 1) keeps tenths of a second

\* C2: from one /info/json request to the next, each *_ttl_remaining does not
\* increase while both are answered from the same computation, and it is 300.0 in
\* the response of the request in which the function is recomputed.
C2_TtlRemaining ==
    [][resp'.kind = "info_json" /\ Serving =>
        \A f \in Funcs :
            LET shown == resp'.body.cache[TtlField(f)]
            IN  /\ (last_json.count[f] > 0 /\ invoked'[f].count = last_json.count[f]) =>
                        shown <= last_json.ttl[f]
                /\ invoked'[f].count = invoked[f].count + 1 => shown = seconds * Tenths
                /\ shown >= 0 /\ shown <= seconds * Tenths]_vars

\* the request that recomputes after the expiry answers 300.0 again
C2_Witness ==
    /\ resp.kind = "info_json"
    /\ \A f \in Funcs :
        /\ invoked[f].count = 2
        /\ invoked[f].at = clock
        /\ clock > seconds * Hz
        /\ resp.body.cache[TtlField(f)] = seconds * Tenths

---------------------------------------------------------------------------
(* Properties of the heartbeat history and of /cron *)

\* the last n elements of s
LastN(s, n) == SubSeq(s, Len(s) - n + 1, Len(s))

\* C3: cron_history["heartbeat"] never holds more than 50 entries; it holds the
\* records of the min(runs, 50) most recent runs in run order.
C3_HistoryBounded ==
    /\ Len(cron_history) <= maxlen
    /\ cron_stats.runs = Len(runlog)
    /\ cron_history = LastN(runlog, Min(Len(runlog), maxlen))

C3_Witness == Len(runlog) > maxlen /\ Len(cron_history) = maxlen

\* C7: the history section of /cron lists min(20, stored records) entries, the
\* most recent runs, newest first.  (The order is that of the stored ISO time
\* strings; the clock does not go back between two runs, 30 minutes apart.)
C7_CronNewestFirst ==
    resp.kind = "cron" =>
        LET n == Min(HistoryShown, Len(cron_history))
        IN  /\ Len(resp.body.history) = n
            /\ \A i \in 1..n : resp.body.history[i] = runlog[Len(runlog) - i + 1].message
            /\ resp.body.no_runs_yet = (n = 0)

C7_Witness ==
    /\ resp.kind = "cron"
    /\ Len(cron_history) > HistoryShown
    /\ Len(resp.body.history) = HistoryShown
    /\ resp.body.history[1] # resp.body.history[HistoryShown]

---------------------------------------------------------------------------
(* Properties of /health and of the system information *)

IsDigit(c) == c >= Ch(0) /\ c <= Ch(9)

RECURSIVE Number(_)
\* the number a string of digits denotes
Number(s) == IF s = <<>> THEN 0 ELSE Number(SubSeq(s, 1, Len(s) - 1)) * 10 + (s[Len(s)] - Ch(0))

\* s has the form date "T" time ["." fraction]
IsIso8601(s) ==
    /\ Len(s) \in {IsoSecondsLen, IsoSecondsLen + 3}
    /\ s[11] = LETTER_T
    /\ \A i \in 1..IsoSecondsLen : i # 11 => IsDigit(s[i])
    /\ Len(s) > IsoSecondsLen =>
            s[IsoSecondsLen + 1] = DOT /\ \A i \in (IsoSecondsLen + 2)..Len(s) : IsDigit(s[i])

\* the time an ISO string denotes, in ticks of the clock
IsoTime(s) ==
    (Number(SubSeq(s, 1, 10)) * SecondsPerDay + Number(SubSeq(s, 12, IsoSecondsLen))) * Hz
    + (IF Len(s) > IsoSecondsLen THEN Number(SubSeq(s, IsoSecondsLen + 2, Len(s))) ELSE 0)

\* C8: while the application serves, /health can always be answered, and its
\* answer is 200 with status "ok", the current time in ISO form and
\* instances_aware = 790471.
C8_HealthAlwaysOk ==
    /\ Serving => ENABLED Health
    /\ resp.kind = "health" =>
            /\ resp.status = 200
            /\ DOMAIN resp.body = {"status", "timestamp", "instances_aware"}
            /\ resp.body.status = "ok"
            /\ IsIso8601(resp.body.timestamp)
            /\ IsoTime(resp.body.timestamp) = clock
            /\ resp.body.instances_aware = 790471

\* /health answered with runs in the history and the caches filled
C8_Witness ==
    /\ resp.kind = "health"
    /\ Len(cron_history) > 0
    /\ \A f \in Funcs : cache[f].value # None
    /\ clock % Hz # 0

\* the system information a response carries
SystemOf(r) ==
    CASE r.kind = "home" -> r.body.info
      [] r.kind = "info" -> r.body.sys_info
      [] r.kind = "info_json" -> r.body.system

\* C10: the system information of every response of /, /info and /info/json is
\* that of the environment at the time of the request, also while the cached
\* sprite, fastfetch and htop data are older.
C10_SystemInfoFresh ==
    (resp.kind \in {"home", "info", "info_json"} /\ resp.status = 200) =>
        /\ SystemOf(resp).hostname = world.node
        /\ SystemOf(resp).user = world.environ["USER"]
        /\ SystemOf(resp).home = world.environ["HOME"]
        /\ SystemOf(resp).cwd = world.cwd
        /\ SystemOf(resp).pid = world.pid
        /\ SystemOf(resp).cpu_count = world.cpu_count

\* a response inside the window: cached data of the old environment, system
\* information of the new one
C10_Witness ==
    /\ resp.kind = "info_json"
    /\ world = WorldB
    /\ resp.body.sprite = get_sprite_info(WorldA)
    /\ resp.body.sprite # get_sprite_info(WorldB)
    /\ resp.body.system.hostname = "sprite-b"
    /\ resp.body.cache.sprite_ttl_remaining < seconds * Tenths

---------------------------------------------------------------------------
(* Properties of the sources *)

\* the sprite-env and fastfetch executables are missing
ExecutablesMissing == "sprite-env" \notin world.path /\ "fastfetch" \notin world.path

\* C4: when the fastfetch and sprite-env executables are missing, every endpoint
\* answers 200, get_fastfetch_info yields {} and get_sprite_info yields
\* services = [] and checkpoints = [], and /info shows its placeholders
\* "Unknown", 0, "N/A", "No services configured" and "No checkpoints yet".
C4_MissingExecutables ==
    ExecutablesMissing =>
        /\ resp.kind \in {"home", "info", "info_json", "cron", "health"} => resp.status = 200
        /\ cache["get_fastfetch_info"].value \in {None, JDict(<<>>)}
        /\ resp.kind = "info_json" =>
                /\ resp.body.fastfetch = JDict(<<>>)
                /\ resp.body.sprite.services = JList(<<>>)
                /\ resp.body.sprite.checkpoints = JList(<<>>)
        /\ resp.kind = "info" =>
                /\ resp.body.services_html = [text |-> "No services configured"]
                /\ resp.body.checkpoints_html = [text |-> "No checkpoints yet"]
                /\ resp.body.fastfetch.os_name = JStr("Unknown")
                /\ resp.body.fastfetch.cpu_name = JStr("Unknown")
                /\ resp.body.fastfetch.shell_name = JStr("Unknown")
                /\ resp.body.fastfetch.pkg_count = JNum(0)
                /\ resp.body.fastfetch.local_ip = JStr("N/A")
                /\ resp.body.fastfetch.mem_used = Rat(0, 1)
                /\ resp.body.fastfetch.mem_total = Rat(0, 1)
                /\ resp.body.fastfetch.mem_pct = Rat(0, 1)
                /\ resp.body.fastfetch.disk_used = Rat(0, 1)
                /\ resp.body.fastfetch.disk_total = Rat(0, 1)
                /\ resp.body.fastfetch.disk_pct = Rat(0, 1)

\* /info rendered on a machine without the executables and without /.sprite
C4_Witness ==
    /\ ExecutablesMissing
    /\ ~world.files["/.sprite/version.txt"].exists
    /\ resp.kind = "info"
    /\ resp.status = 200
    /\ resp.body.version = "unknown"
    /\ resp.body.services_html = [text |-> "No services configured"]

\* the sources of get_sprite_info and get_htop_data that failed in w
CommandFails(w, exe, cmd) ==
    \/ exe \notin w.path
    \/ w.procs[cmd].timeout
    \/ w.procs[cmd].returncode # 0
\* the commands whose exit status the code does not look at
RunFails(w, exe, cmd) == exe \notin w.path \/ w.procs[cmd].timeout
FileFails(w, name) == ~w.files[name].exists
\* the first /proc/stat line of a core whose fields are not all numbers, or 0
FirstUnparsable(lines) ==
    LET bad == {i \in 2..Len(lines) :
                    \E k \in 2..Len(lines[i]) : \E c \in {"n/a"} : lines[i][k] = c}
    IN  IF bad = {} THEN 0 ELSE CHOOSE i \in bad : \A j \in bad : i <= j

\* a field is at its default exactly when its source failed
DefaultIff(fails, field, dflt) == IF fails THEN field = dflt ELSE field # dflt

SpriteKeys == {"version", "services", "checkpoints", "network_policy"}
HtopKeys == {"cpu_bars", "memory", "swap", "tasks", "load_avg", "uptime", "processes"}
NoMemory == [used |-> Rat(0, 1), total |-> Rat(0, 1), pct |-> Rat(0, 1)]

\* what C9 and its amended form say alike of the other sources
SourcesFailSoft(s, h) ==
    /\ DOMAIN s = SpriteKeys
    /\ DOMAIN h = HtopKeys
    /\ DefaultIff(FileFails(world, "/.sprite/version.txt"), s.version, "unknown")
    /\ DefaultIff(CommandFails(world, "sprite-env", "sprite-env services list"),
                  s.services, JList(<<>>))
    /\ DefaultIff(CommandFails(world, "sprite-env", "sprite-env checkpoints list"),
                  s.checkpoints, JList(<<>>))
    /\ DefaultIff(FileFails(world, "/.sprite/policy/network.json"),
                  s.network_policy, JDict([rules |-> JList(<<>>)]))
    /\ DefaultIff(FileFails(world, "/proc/meminfo"), h.memory, NoMemory)
    /\ DefaultIff(FileFails(world, "/proc/meminfo"), h.swap.total, Rat(0, 1))
    /\ DefaultIff(FileFails(world, "/proc/loadavg"), h.load_avg,
                  <<Rat(0, 1), Rat(0, 1), Rat(0, 1)>>)
    /\ DefaultIff(RunFails(world, "ps", "ps aux"), h.processes, <<>>)
    /\ DefaultIff(RunFails(world, "ps", "ps aux"), h.tasks,
                  [total |-> 0, running |-> 0, sleeping |-> 0])

---------------------------------------------------------------------------
(* Properties of the grid and of the unlocked wrapper *)

\* how many cells of grid are of kind k
Count(grid, k) == Cardinality({i \in 1..Len(grid) : grid[i] = k})

\* C6: with its defaults generate_warm_pool_grid returns 255 cells, 243 of them
\* active, 7 rogue and 5 weak, whatever the shuffle does; for any arguments
\* with isolated + weak <= total (numbers of cells, none negative) it returns
\* total cells, isolated of them rogue and weak of them weak.
C6_GridCounts ==
    /\ (pool.called /\ pool.isolated + pool.weak <= pool.total) =>
            /\ Len(pool.grid) = pool.total
            /\ Count(pool.grid, "rogue") = pool.isolated
            /\ Count(pool.grid, "weak") = pool.weak
            /\ Count(pool.grid, "active") = pool.total - pool.isolated - pool.weak
    /\ (pool.called /\ pool.total = 255 /\ pool.isolated = 7 /\ pool.weak = 5) =>
            /\ Len(pool.grid) = 255
            /\ Count(pool.grid, "active") = 243
            /\ Count(pool.grid, "rogue") = 7
            /\ Count(pool.grid, "weak") = 5
    /\ resp.kind = "home" =>
            /\ Len(resp.body.warm_pool_grid) = 255
            /\ Count(resp.body.warm_pool_grid, "active") = 243
            /\ Count(resp.body.warm_pool_grid, "rogue") = 7
            /\ Count(resp.body.warm_pool_grid, "weak") = 5

\* the default grid, shuffled: a rogue or weak cell among the first 243
C6_Witness ==
    /\ pool.called
    /\ pool.total = 255 /\ pool.isolated = 7 /\ pool.weak = 5
    /\ Len(pool.grid) = 255
    /\ \E i \in 1..243 : pool.grid[i] # "active"
    /\ \E i \in 244..255 : pool.grid[i] = "active"

---------------------------------------------------------------------------
(* Properties of the /info/json object and of the remaining TTL *)

\* C11: /info/json returns an object with exactly the keys system, sprite,
\* fastfetch, htop and cache; cache.ttl_seconds is 300, and each
\* *_ttl_remaining is the remaining TTL (to a tenth of a second) of the slot
\* whose value the response carries under sprite, fastfetch or htop.
C11_InfoJsonShape ==
    resp.kind = "info_json" =>
        /\ DOMAIN resp.body = {"system", "sprite", "fastfetch", "htop", "cache"}
        /\ DOMAIN resp.body.cache = {"ttl_seconds", "sprite_ttl_remaining",
                                     "fastfetch_ttl_remaining", "htop_ttl_remaining"}
        /\ resp.body.cache.ttl_seconds = 300
        /\ resp.body.sprite = cache["get_sprite_info"].value
        /\ resp.body.fastfetch = cache["get_fastfetch_info"].value
        /\ resp.body.htop = cache["get_htop_data"].value
        /\ \A f \in Funcs :
            LET shown == resp.body.cache[TtlField(f)] * (Hz \div Tenths)
                ttl == cache[f].expires - clock
            IN  /\ shown - ttl <= Hz \div (2 * Tenths)
                /\ ttl - shown <= Hz \div (2 * Tenths)

\* a response from the cache, part of the window gone, the environment changed
C11_Witness ==
    /\ resp.kind = "info_json"
    /\ resp.body.cache.ttl_seconds = 300
    /\ resp.body.cache.htop_ttl_remaining > 0
    /\ resp.body.cache.htop_ttl_remaining < seconds * Tenths
    /\ resp.body.cache.htop_ttl_remaining * (Hz \div Tenths) # cache["get_htop_data"].expires - clock
    /\ resp.body.sprite # get_sprite_info(world)

\* C12: every call of a wrapper returns a remaining TTL r with 0 <= r <= 300
\* seconds, whether the calls follow one another or interleave statement by
\* statement while the clock never runs backwards (so that 300 - r, the cache
\* age /info derives from it, lies in 0..300 as well).
C12_TtlInRange ==
    \A t \in Threads :
        thr.local[t].pc = "done" =>
            /\ thr.local[t].ttl >= 0
            /\ thr.local[t].ttl <= TTL
            /\ TTL - thr.local[t].ttl \in 0..TTL

---------------------------------------------------------------------------
(* Properties of /cron beside a running heartbeat *)

\* C13: a GET /cron request that runs while heartbeat_job runs on the
\* scheduler's thread always completes with a page: no response to /cron is an
\* error, whatever the heartbeat appends while the history is iterated.
C13_CronAlwaysRenders == resp.kind = "cron" => resp.status = 200

\* C15: whenever no heartbeat_job is in the middle of executing, runs is the
\* number of heartbeat runs made since the process started, the history holds
\* min(runs, 50) entries, last_run is None exactly when runs = 0, and otherwise
\* last_run is the time of the newest entry of the history.
C15_StatsAtRest ==
    thr.local.job.pc = "idle" =>
        /\ cron_stats.runs = Len(runlog)
        /\ Len(cron_history) = Min(cron_stats.runs, maxlen)
        /\ (cron_stats.last_run = <<>>) = (cron_stats.runs = 0)
        /\ cron_stats.runs > 0 =>
               cron_stats.last_run = cron_history[Len(cron_history)].time

\* at rest after more runs than the history keeps
C15_Witness ==
    /\ thr.local.job.pc = "idle"
    /\ cron_stats.runs > maxlen
    /\ Len(cron_history) = maxlen
    /\ cron_history[1] # runlog[1]

\* C16: a /cron page rendered while heartbeat_job runs is consistent in itself:
\* every history entry it shows belongs to a run that its 'Total runs' counts,
\* and the newest entry it shows is the run its 'Last run' names.
C16_CronPageConsistent ==
    (resp.kind = "cron" /\ resp.status = 200) =>
        /\ \A i \in 1..Len(resp.body.history) :
               \E k \in 1..resp.body.runs : runlog[k].message = resp.body.history[i]
        /\ resp.body.history # <<>> =>
               /\ ~resp.body.last_run_never
               /\ resp.body.last_run = resp.body.history[1].stamp

---------------------------------------------------------------------------
(* Properties of the cache: failures, the moment of expiry, frames *)

\* C14: the result of a cached function whose every source failed (its
\* defaults) is cached like any other: until 300 seconds after it was computed
\* no call invokes the function again, and every call returns the same defaults.
C14_FailureCached ==
    [][CachedCalls =>
        \A f \in Funcs :
            (/\ invoked[f].count > 0
             /\ invoked[f].result = Defaults(f)
             /\ clock' <= invoked[f].at + seconds * Hz) =>
                /\ invoked'[f].count = invoked[f].count
                /\ invoked'[f].returned = Defaults(f)
                /\ cache'[f] = cache[f]]_vars

\* the defaults of all three served from the cache after the sources came back
C14_Witness ==
    /\ resp.kind = "info_json"
    /\ world = WorldA
    /\ clock > invoked["get_fastfetch_info"].at
    /\ \A f \in Funcs :
        /\ invoked[f].count = 1
        /\ invoked[f].returned = Defaults(f)
        /\ func(f, world) # Defaults(f)
    /\ resp.body.fastfetch = JDict(<<>>)

\* C17: the expiry test is strict.  A call at exactly now = expires returns the
\* stored value with a remaining TTL of 0 and does not invoke the function; the
\* function is invoked only when now > expires or nothing has been stored yet.
C17_StrictExpiry ==
    [][CachedCalls =>
        \A f \in Funcs :
            /\ (invoked'[f].count # invoked[f].count) =
                   (cache[f].value = None \/ clock' > cache[f].expires)
            /\ (cache[f].value # None /\ clock' = cache[f].expires) =>
                   /\ invoked'[f].count = invoked[f].count
                   /\ invoked'[f].returned = cache[f].value
                   /\ cache'[f] = cache[f]
                   /\ resp'.kind = "info_json" => resp'.body.cache[TtlField(f)] = 0]_vars

\* a call at the very moment of expiry, answered with what was stored
C17_Witness ==
    /\ resp.kind = "info_json"
    /\ \A f \in Funcs : clock = cache[f].expires /\ invoked[f].count = 1
    /\ resp.body.cache.sprite_ttl_remaining = 0
    /\ resp.body.sprite = cache["get_sprite_info"].value
    /\ resp.body.sprite # get_sprite_info(world)

\* C18: requests change only the state they own.  GET / and GET /health change
\* neither the caches nor the cron history and statistics; GET /info and GET
\* /info/json change nothing but cache slots, and a slot only when it has
\* expired; GET /cron changes nothing but next_run; a heartbeat changes the
\* history, runs and last_run, and never the caches or next_run.
C18_Frames ==
    [][/\ resp'.kind \in {"home", "health"} =>
              UNCHANGED <<cache, cron_history, cron_stats>>
       /\ resp'.kind \in {"info", "info_json"} =>
              /\ UNCHANGED <<cron_history, cron_stats>>
              /\ \A f \in Funcs : cache'[f] # cache[f] => clock' > cache[f].expires
       /\ resp'.kind = "cron" =>
              /\ UNCHANGED <<cache, cron_history>>
              /\ cron_stats'.runs = cron_stats.runs
              /\ cron_stats'.last_run = cron_stats.last_run
       /\ runlog' # runlog =>
              /\ UNCHANGED cache
              /\ cron_stats'.next_run = cron_stats.next_run
              /\ cron_stats'.runs # cron_stats.runs
              /\ cron_stats'.last_run # cron_stats.last_run
              /\ cron_history' # cron_history]_vars

\* a page of /cron after a heartbeat and a second computation of the caches
C18_Witness ==
    /\ resp.kind = "cron"
    /\ resp.body.runs = 1
    /\ cron_stats.next_run # isoformat(Hz + Interval)
    /\ \A f \in Funcs : invoked[f].count = 2

---------------------------------------------------------------------------
(* Properties of the /info page in the browser *)

\* a step in which the script of the page ran tick()
Ticked == browser'.pc \in {"shown", "reload"} /\ browser' # browser

\* C20: after every tick the page displays the age cacheAge + elapsed and the
\* time to refresh max(0, 300 - elapsed), which is never negative (both in
\* whole seconds, as "Ns" or "Mm Ns"); the dot is green exactly when
\* age < 60, yellow exactly when 60 <= age < 240, red exactly when age >= 240.
C20_TickDisplay ==
    [][Ticked =>
        LET elapsed == clock' - browser'.startTime
            age == browser'.cacheAge * Hz + elapsed
            left == IF elapsed >= 300 * Hz THEN 0 ELSE 300 * Hz - elapsed
            d == browser'.display
            Seconds(text) == IF Len(text) = 1 THEN text[1] ELSE 60 * text[1] + text[2]
        IN  /\ Seconds(d.age) * Hz <= age /\ age < (Seconds(d.age) + 1) * Hz
            /\ Seconds(d.left) * Hz <= left /\ left < (Seconds(d.left) + 1) * Hz
            /\ Seconds(d.left) >= 0
            /\ Len(d.age) = 1 <=> age < 60 * Hz
            /\ Len(d.age) = 2 => d.age[2] \in 0..59
            /\ (d.color = "#27c93f") = (age < 60 * Hz)
            /\ (d.color = "#ffbd2e") = (60 * Hz <= age /\ age < 240 * Hz)
            /\ (d.color = "#ff5f56") = (age >= 240 * Hz)]_vars

\* a tick that came late, on a page that was not fresh, the dot just turned red
C20_Witness ==
    /\ browser.pc = "shown"
    /\ browser.cacheAge > 0
    /\ (clock - browser.startTime) % Hz # 0
    /\ browser.display.color = "#ff5f56"
    /\ browser.display.age = <<4, 0>>
    /\ browser.display.left # <<0>>

\* a step in which the server handles the request of the page's reload
ReloadHandled == browser.pc = "requested" /\ browser.loads > 0 /\ browser'.pc = "sent"

\* a step of the page's timer
TimerTicked == browser.pc = "shown" /\ browser'.ticks = browser.ticks + 1

\* C19, as the specification states it: the timer reloads the page once 300
\* seconds have passed since the page was loaded; at that moment each of the
\* three caches that supplied the page has expired, so the request of the
\* reload invokes each function again and serves no value of the page again.
C19_ReloadAlwaysRecomputes ==
    [][/\ TimerTicked =>
              (browser'.pc = "reload") = (clock' - browser.startTime >= 300 * Hz)
       /\ ReloadHandled =>
              \A f \in Funcs :
                  /\ clock > cache[f].expires
                  /\ invoked'[f].count = invoked[f].count + 1
                  /\ browser'.supplied[f] # browser.supplied[f]]_vars

\* C19, amended: the timer reloads the page at the first tick at which 300
\* seconds or more have passed since the page was loaded.  The request of the
\* reload is handled no earlier than the expiry time of each value of the
\* page; handled later than that time, it serves a value computed after the
\* page's: it invokes the function itself if no other request has replaced
\* the value since, and serves the replacement without invoking the function
\* if the replacement has not expired.  Handled at exactly the expiry time it
\* serves the value of the page again.
C19_ReloadFresh ==
    [][/\ TimerTicked =>
              (browser'.pc = "reload") = (clock' - browser.startTime >= 300 * Hz)
       /\ ReloadHandled =>
              \A f \in Funcs :
                  LET expiry == browser.supplied[f] + seconds * Hz
                      replaced == invoked[f].at # browser.supplied[f]
                  IN  /\ clock >= expiry
                      /\ clock > expiry => browser'.supplied[f] > browser.supplied[f]
                      /\ (clock > expiry /\ ~replaced) =>
                             invoked'[f].count = invoked[f].count + 1
                      /\ (replaced /\ clock <= cache[f].expires) =>
                             /\ invoked'[f].count = invoked[f].count
                             /\ browser'.supplied[f] = invoked[f].at
                      /\ clock = expiry =>
                             /\ invoked'[f].count = invoked[f].count
                             /\ browser'.supplied[f] = browser.supplied[f]]_vars

\* the reload was answered from the cache with values another request computed
\* while the page was shown
C19_Witness ==
    /\ browser.pc = "sent"
    /\ browser.loads > 0
    /\ browser.ticks >= 300
    /\ resp.kind = "info"
    /\ \A f \in Funcs :
        /\ browser.supplied[f] > browser.previous[f]
        /\ browser.supplied[f] < clock
        /\ browser.previous[f] > 0

---------------------------------------------------------------------------
(* Properties of the boot sequence of the home page *)

\* the pages on which the boot script runs or has run
Booting == browser.pc \in {"boot", "reveal", "booted"}

\* C21: the boot sequence appends the 18 boot messages to the boot log one
\* per step, in array order, each once; the overlay is hidden and the main
\* content made visible only after all 18 lines are in the log; this comes
\* about on every page load, and no line is added afterwards.
C21_BootSequence ==
    /\ [](Booting =>
            /\ Len(browser.bootMessages) = 18
            /\ browser.lineIndex = Len(browser.bootLog)
            /\ browser.lineIndex <= 18
            /\ \A i \in 1..Len(browser.bootLog) :
                   browser.bootLog[i].textContent = browser.bootMessages[i]
            /\ (browser.hidden \/ browser.opacity = 1) =>
                   (Len(browser.bootLog) = 18 /\ browser.hidden /\ browser.opacity = 1))
    /\ [][(Booting /\ browser'.bootLog # browser.bootLog) =>
            /\ Len(browser'.bootLog) = Len(browser.bootLog) + 1
            /\ SubSeq(browser'.bootLog, 1, Len(browser.bootLog)) = browser.bootLog
            /\ ~browser.hidden]_vars
    /\ [](browser.pc = "sent_home" =>
            <>[](browser.pc = "booted" /\ browser.hidden /\ browser.opacity = 1
                 /\ Len(browser.bootLog) = 18))

\* the page of the second environment, booted, its timers late at least once
C21_Witness ==
    /\ browser.pc = "booted"
    /\ browser.hidden
    /\ Len(browser.bootLog) = 18
    /\ browser.bootLog[16].textContent.value = "sprite-b"
    /\ browser.bootLog[11].color = "#ffbd2e"
    /\ clock > browser.due


---------------------------------------------------------------------------
(* The outputs of /proc/stat and ps of any length, with lines out of shape *)

MaxStatLines == 10
MaxPsLines == 14

CounterTokens == <<"0", "10", "30", "60", "100", "512", "1024", "2048", "4096">>
NextToken(k) == CounterTokens[(k % Len(CounterTokens)) + 1]

\* the line of core k - 1: its counters, no counters, all counters 0, or a
\* counter that is no number, or counters below 0
CoreLine(k, kind) ==
    LET name == "cpu" \o ToString(k - 1)
    IN  CASE kind = "short" -> <<name, "10", "0">>
          [] kind = "idle" -> <<name, "0", "0", "0", "0">>
          [] kind = "text" -> <<name, "10", "n/a", "30", "60">>
          [] kind = "cancelling" -> <<name, "10", "-10", "0", "0">>
          [] kind = "negative" -> <<name, "-10", "0", "0", "30">>
          [] OTHER -> <<name, NextToken(k - 1), "0", "30", NextToken(k + 4)>>

\* the aggregate line and n core lines, those at the positions of P of the kind
StatOf(n, P, kind) ==
    << <<"cpu", "100", "0", "100", "2048">> >>
    \o [k \in 1..n |-> CoreLine(k, IF k \in P THEN kind ELSE "counters")]

\* the line of process k: running, sleeping, cut short, or blank
ProcessLine(k, kind) ==
    CASE kind = "short" -> <<"root", ToString(k), "0.0", "0.1">>
      [] kind = "blank" -> <<>>
      [] kind = "running" -> PsLine("root", ToString(k), "R+", "worker")
      [] OTHER -> PsLine(IF k % 2 = 0 THEN "www-data-runner" ELSE "sprite", ToString(k),
                         IF k % 3 = 0 THEN "Rs" ELSE "Sl", "uvicorn main:app")

\* the header and n process lines, those at the positions of P of the kind
PsOf(n, P, kind) ==
    <<PsHeader>> \o [k \in 1..n |-> ProcessLine(k, IF k \in P THEN kind ELSE "process")]

StatCounts == {0, 1, MaxCpuBars - 1, MaxCpuBars, MaxCpuBars + 1, MaxStatLines}
StatOdd == {{}, {1}, {3}, {MaxCpuBars}, {1, 3}, {2, MaxCpuBars + 1}}
StatKinds == {"short", "idle", "text", "cancelling", "negative"}
StatOutputs ==
    {<<>>} \cup {StatOf(n, P, kind) : n \in StatCounts, P \in StatOdd,
                                     kind \in StatKinds}
PsCounts == {0, 1, MaxProcesses - 1, MaxProcesses, MaxProcesses + 1, MaxPsLines}
PsOdd == {{}, {1}, {6}, {MaxProcesses}, {1, 6}, {2, MaxProcesses + 1}}
PsOutputs ==
    {<<>>, <<PsHeader>>} \cup {PsOf(n, P, kind) : n \in PsCounts, P \in PsOdd,
                                                 kind \in {"short", "blank", "running"}}

StatLong == StatOf(MaxStatLines, {3}, "short")
PsLong == PsOf(MaxPsLines, {6}, "short")

HtopOf(stat, ps) == [HtopGood EXCEPT !.stat = Ran(stat), !.ps = Ran(ps)]

\* /proc/meminfo with no memory and no swap, without its swap lines, empty
MemZero ==
    << <<"MemTotal:", "0", "kB">>, <<"MemFree:", "512", "kB">>,
       <<"SwapTotal:", "0", "kB">>, <<"SwapFree:", "0", "kB">> >>
MemNoSwap == << <<"MemTotal:", "4096", "kB">>, <<"MemFree:", "4096", "kB">> >>
MemOutputs == {MemGood, MemZero, MemNoSwap, <<>>}
FastfetchOutputs ==
    {"[fastfetch: all modules]", "[fastfetch: some modules]", "[fastfetch: zero totals]", "[]"}
StatIdle == StatOf(MaxCpuBars + 1, {1, 3}, "idle")

\* every /proc/stat output with two ps outputs, every ps output with two
\* /proc/stat outputs, every /proc/meminfo with every fastfetch output
HtopWorlds ==
    {MkWorld(SysA, SpriteGood, FastfetchGood, HtopOf(stat, ps)) :
        stat \in StatOutputs, ps \in {PsGood, PsLong}}
    \cup {MkWorld(SysA, SpriteGood, FastfetchGood, HtopOf(stat, ps)) :
        stat \in {StatGood, StatLong}, ps \in PsOutputs}
    \cup {MkWorld(SysA, SpriteGood, [FastfetchGood EXCEPT !.fastfetch = Ran(ff)],
                  [HtopOf(StatIdle, PsGood) EXCEPT !.meminfo = FileOf(mem)]) :
        ff \in FastfetchOutputs, mem \in MemOutputs}

InitHtop ==
    InitProgram /\ world \in HtopWorlds /\ pool = NoPool /\ thr = NoThreads
    /\ browser = NoBrowser

NextHtop == StartScheduler \/ Info \/ InfoJson

\* /info and /info/json over the outputs of HtopWorlds
SpecHtop == InitHtop /\ [][NextHtop]_vars

\* a response that carries the htop data
HtopServed == resp.kind \in {"info", "info_json"} /\ resp.status = 200
\* the lines the two commands printed, as the code splits them
StatLines == SplitLines(world.procs["grep cpu /proc/stat"].stdout)
PsLines == SplitLines(world.procs["ps aux"].stdout)
\* a per-core line: at least five fields, the four counters integers
PerCore(line) == Len(line) >= 5 /\ \A k \in 2..5 : line[k] \in DOMAIN IntTokens
\* a line with its fields whose counters are no integers
Unparsable(line) == Len(line) >= 5 /\ ~PerCore(line)
\* a well-formed ps line
WellFormed(line) == Len(line) >= 11

C23_TasksAddUp ==
    HtopServed =>
        LET tasks == resp.body.htop.tasks
            lines == Tail(PsLines)
        IN  /\ tasks.total = Len(lines)
            /\ tasks.running = Cardinality({k \in 1..Len(lines) :
                                   WellFormed(lines[k]) /\ HasR(lines[k][8])})
            /\ tasks.running + tasks.sleeping = tasks.total


\* a quotient that was computed: a fraction with a denominator
Computed(q) == q.den > 0
\* the counters of a per-core line and their sum
Counters(line) == [k \in 1..4 |-> IntTokens[line[k + 1]]]
Sum4(c) == c[1] + c[2] + c[3] + c[4]

\* C24: no percentage computation divides by zero. The per-core CPU usage, the
\* memory pct and the swap pct of get_htop_data and mem_pct and disk_pct of
\* /info are 0 whenever their total is 0, and for counters that are
\* non-negative integers the per-core usage lies in 0..100.
C24_NoDivisionByZero ==
    HtopServed =>
        LET htop == resp.body.htop
            cores == Tail(StatLines)
        IN  /\ \A i \in 1..Len(htop.cpu_bars) :
                   LET bar == htop.cpu_bars[i]
                       c == Counters(cores[bar.core + 1])
                   IN  /\ Computed(bar.usage)
                       /\ Sum4(c) = 0 => bar.usage = Zero
                       /\ (\A k \in 1..4 : c[k] >= 0) =>
                              /\ 0 <= bar.usage.num
                              /\ bar.usage.num <= 100 * bar.usage.den
            /\ \A part \in {htop.memory, htop.swap} :
                   /\ Computed(part.pct)
                   /\ part.total = Zero => part.pct = Zero
            /\ resp.kind = "info" =>
                   LET ff == resp.body.fastfetch
                   IN  /\ Computed(ff.mem_pct) /\ Computed(ff.disk_pct)
                       /\ ff.mem_total = Zero => ff.mem_pct = Zero
                       /\ ff.disk_total = Zero => ff.disk_pct = Zero

\* a page with every total at 0 while the amounts used are not, and with
\* cores at 0 and at 100 per cent
C24_Witness ==
    /\ HtopServed /\ resp.kind = "info"
    /\ \E i \in 1..Len(resp.body.htop.cpu_bars) :
           /\ Sum4(Counters(StatLines[resp.body.htop.cpu_bars[i].core + 2])) = 0
           /\ resp.body.htop.cpu_bars[i].usage = Zero
    /\ \E i \in 1..Len(resp.body.htop.cpu_bars) :
           resp.body.htop.cpu_bars[i].usage = [num |-> 100, den |-> 1]
    /\ resp.body.htop.memory.total = Zero /\ resp.body.htop.memory.used # Zero
    /\ resp.body.htop.swap.total = Zero
    /\ resp.body.fastfetch.mem_total = Zero /\ resp.body.fastfetch.mem_used # Zero
    /\ resp.body.fastfetch.disk_total = Zero /\ resp.body.fastfetch.disk_used # Zero


---------------------------------------------------------------------------
(* /info and /info/json over the answers of fastfetch, the checkpoint lists
   and the network policies *)

FastfetchTexts ==
    {"<html>", "[]", "{}", "{result: x}", "[fastfetch: all modules]",
     "[fastfetch: some modules]", "[fastfetch: zero totals]", "[fastfetch: a number]",
     "[fastfetch: strings]", "[fastfetch: result string]", "[fastfetch: type a list]",
     "[fastfetch: item without type]"}
FastfetchAnswers ==
    [path : {{"fastfetch"}, {}},
     fastfetch : {TimedOutText, Exited(1, "[fastfetch: all modules]")}
                 \cup {Ran(text) : text \in FastfetchTexts}]
CheckpointTexts == {"[]", "[cp1]", "[cp1..cp4]", "[cp1..cp5]", "[cp1..cp6]", "[cp1..cp7]"}
PolicyTexts ==
    {"{}", "{rules: []}", "{rules: [defaults]}", "{rules: [allow]}",
     "{rules: [defaults, allow]}", "{rules: [allow, defaults]}",
     "{rules: [defaults, defaults]}", "{rules: [allow, allow]}",
     "{rules: [allow, allow, allow]}"}
SpriteAnswers ==
    {[SpriteGood EXCEPT !.checkpoints = Ran(cps), !.policy = p] :
        cps \in CheckpointTexts, p \in {NoTextFile} \cup {FileOf(text) : text \in PolicyTexts}}

PageWorlds ==
    {MkWorld(SysA, SpriteGood, ff, HtopGood) : ff \in FastfetchAnswers}
    \cup {MkWorld(SysA, sprite, FastfetchGood, HtopGood) : sprite \in SpriteAnswers}

InitPage ==
    InitProgram /\ world \in PageWorlds /\ pool = NoPool /\ thr = NoThreads
    /\ browser = NoBrowser

NextPage == StartScheduler \/ Info \/ InfoJson

SpecPage == InitPage /\ [][NextPage]_vars

\* what fastfetch printed, and the items of a list it printed
FastfetchAnswer == world.procs["fastfetch --format json"]
FastfetchItems ==
    IF JsonLoads(FastfetchAnswer.stdout).ok
    THEN IF JsonLoads(FastfetchAnswer.stdout).v.t = "list"
         THEN JsonLoads(FastfetchAnswer.stdout).v.l ELSE <<>>
    ELSE <<>>
\* the positions of the items carrying "result"
Carrying == {i \in 1..Len(FastfetchItems) :
                FastfetchItems[i].t = "dict" /\ "result" \in DOMAIN FastfetchItems[i].d}
\* an item the loop cannot convert
Inconvertible(item) ==
    \/ item.t \in {"num", "bool", "null"}
    \/ item.t = "str" /\ item.s \in ContainsResult
    \/ item.t = "list" /\ \E i \in 1..Len(item.l) : item.l[i] = JStr("result")
    \/ /\ item.t = "dict" /\ "result" \in DOMAIN item.d
       /\ \/ "type" \notin DOMAIN item.d
          \/ item.d["type"].t \in {"list", "dict"}
FastfetchFailed ==
    \/ "fastfetch" \notin world.path
    \/ FastfetchAnswer.timeout
    \/ FastfetchAnswer.returncode # 0
    \/ ~JsonLoads(FastfetchAnswer.stdout).ok
    \/ \E i \in 1..Len(FastfetchItems) : Inconvertible(FastfetchItems[i])

\* C25: get_fastfetch_info turns the list fastfetch prints into a dict from
\* type to result for exactly the items carrying "result": an item without
\* "result" is left out and a later item of a type replaces an earlier one.
\* When the command fails, exits non-zero, prints no JSON or prints an item
\* that cannot be converted, the result is {} and never a partial dict.
C25_FastfetchDict ==
    resp.kind = "info_json" =>
        LET ff == resp.body.fastfetch
            type(i) == FastfetchItems[i].d["type"].s
        IN  IF FastfetchFailed THEN ff = JDict(<<>>)
            ELSE /\ ff.t = "dict"
                 /\ DOMAIN ff.d = {type(i) : i \in Carrying}
                 /\ \A i \in Carrying :
                        (\A j \in Carrying : j > i => type(j) # type(i))
                            => ff.d[type(i)] = FastfetchItems[i].d["result"]

\* a list with two items of one type and an item without "result"
C25_Witness ==
    /\ resp.kind = "info_json"
    /\ ~FastfetchFailed
    /\ \E i, j \in Carrying :
           /\ i < j
           /\ FastfetchItems[i].d["type"] = FastfetchItems[j].d["type"]
           /\ FastfetchItems[i].d["result"] # FastfetchItems[j].d["result"]
           /\ resp.body.fastfetch.d[FastfetchItems[j].d["type"].s] = FastfetchItems[j].d["result"]
    /\ \E i \in 1..Len(FastfetchItems) : i \notin Carrying
    /\ Cardinality(DOMAIN resp.body.fastfetch.d) = 2


\* a page that rendered
PageServed == resp.kind = "info" /\ resp.status = 200
\* the rules of the policy file, [] when there is no file
PolicyFile == world.files["/.sprite/policy/network.json"]
RulesOnFile ==
    IF PolicyFile.exists
    THEN DictGet(JsonLoads(PolicyFile.text).v, "rules", JList(<<>>)).l
    ELSE <<>>
WithDefaults == {i \in 1..Len(RulesOnFile) :
                    /\ "include" \in DOMAIN RulesOnFile[i].d
                    /\ RulesOnFile[i].d["include"] = JStr("defaults")}

\* C26: the policy summary of /info is "No restrictions" when the rule list is
\* empty, "defaults only" when some rule has include = "defaults" and it is the
\* only rule, "defaults + custom rules" when some rule has include =
\* "defaults" and there is more than one rule, and "<n> rules configured"
\* otherwise.
C26_PolicySummary ==
    PageServed =>
        resp.body.policy_summary =
            CASE RulesOnFile = <<>> -> [text |-> "No restrictions"]
              [] WithDefaults # {} /\ Len(RulesOnFile) = 1 -> [text |-> "defaults only"]
              [] WithDefaults # {} /\ Len(RulesOnFile) > 1 ->
                    [text |-> "defaults + custom rules"]
              [] OTHER -> [n |-> Len(RulesOnFile), text |-> "rules configured"]

\* the defaults after a custom rule
C26_Witness ==
    /\ PageServed
    /\ Len(RulesOnFile) = 2
    /\ WithDefaults = {2}
    /\ resp.body.policy_summary = [text |-> "defaults + custom rules"]


\* the checkpoints sprite-env listed
CheckpointsListed == JsonLoads(world.procs["sprite-env checkpoints list"].stdout).v.l

\* C27: /info shows the last 5 checkpoints of the list, all of them when there
\* are fewer than 5, and the "No checkpoints yet" placeholder exactly when the
\* list is empty.
C27_LastFiveCheckpoints ==
    PageServed =>
        LET n == Len(CheckpointsListed)
            last == SubSeq(CheckpointsListed, Max(1, n - 4), n)
        IN  IF n = 0 THEN resp.body.checkpoints_html = [text |-> "No checkpoints yet"]
            ELSE resp.body.checkpoints_html =
                     [rows |-> [i \in 1..Len(last) |-> CheckpointRow(last[i])]]


\* C28: heartbeat records are produced only while the scheduler is running.
\* Before the startup event no entry is appended and runs stays 0, after the
\* shutdown has completed no entry is appended any more, and until the first
\* heartbeat GET /cron shows "Last run: Never" with the "No runs yet"
\* placeholder.
C28_HeartbeatWhileRunning ==
    /\ [](scheduler.state = "stopped" =>
              /\ cron_history = <<>>
              /\ cron_stats.runs = 0
              /\ cron_stats.last_run = <<>>)
    /\ [][scheduler.state # "running" =>
              /\ cron_history' = cron_history
              /\ cron_stats'.runs = cron_stats.runs
              /\ cron_stats'.last_run = cron_stats.last_run
              /\ runlog' = runlog]_vars
    /\ []((resp.kind = "cron" /\ runlog = <<>>) =>
              /\ resp.body.runs = 0
              /\ resp.body.last_run_never
              /\ resp.body.history = <<>>
              /\ resp.body.no_runs_yet)

\* the scheduler shut down after it ran the heartbeat
C28_Witness == scheduler.state = "shutdown" /\ cron_stats.runs >= 1 /\ cron_history # <<>>

=============================================================================
